---- MODULE Spec2Model ----
(***************************************************************************)
(* Indicator calculation layer of openalgo-chart: Renko reconstruction     *)
(* (src/utils/renkoUtils.js), the VWAP family (src/utils/indicators/       *)
(* vwap.js) and the Hilenga-Milenga momentum composite.                    *)
(*                                                                         *)
(* Every engine is a pure function that loops over a candle array.  Each   *)
(* is modelled as a state machine whose state is the function's locals     *)
(* and whose actions are the entry guard, one loop iteration and the       *)
(* return.  Numbers are exact: prices are integers (ticks), quotients are  *)
(* kept as reduced fractions <<num, den>>.                                 *)
(*                                                                         *)
(* The useIndicatorWorker hook (src/hooks) is the one concurrent part: its *)
(* state is the worker reference, the map of pending requests, the timers  *)
(* and the messages in flight, and its actions are the handlers.           *)
(***************************************************************************)
EXTENDS Integers, Sequences, FiniteSets, TLC

VARIABLES rk, vw, hm, vo, av, dt, gc, wk

vars == <<rk, vw, hm, vo, av, dt, gc, wk>>

\* The state of the engines other than the one that runs: each call runs one
\* function, and the functions share no state.
NotRenko == <<vw, hm, vo, av, dt, gc, wk>>
NotVWAP == <<rk, hm, vo, av, dt, gc, wk>>
NotHM == <<rk, vw, vo, av, dt, gc, wk>>
NotVolume == <<rk, vw, hm, av, dt, gc, wk>>
NotAnchored == <<rk, vw, hm, vo, dt, gc, wk>>
NotDetectors == <<rk, vw, hm, vo, av, gc, wk>>
NotGrouping == <<rk, vw, hm, vo, av, dt, wk>>
NotWorker == <<rk, vw, hm, vo, av, dt, gc>>

\* JavaScript null, as the value of a string-valued local.
Null == "null"

\* A value passed as `data`: an array of candles, null, or something that is
\* not an array.
NullData == [kind |-> "null", items |-> <<>>]
OtherData == [kind |-> "other", items |-> <<>>]
ArrayOf(items) == [kind |-> "array", items |-> items]

\* A numeric argument that may be null.
NullNum == [null |-> TRUE, n |-> 0]
Num(n) == [null |-> FALSE, n |-> n]

\* An engine that is not the one under analysis.
Idle == [pc |-> "idle"]

\* One call: the engines that are not called stay idle.
OnlyRenko == vw = Idle /\ hm = Idle /\ vo = Idle /\ av = Idle /\ dt = Idle /\ gc = Idle /\ wk = Idle
OnlyVWAP == rk = Idle /\ hm = Idle /\ vo = Idle /\ av = Idle /\ dt = Idle /\ gc = Idle /\ wk = Idle
OnlyHM == rk = Idle /\ vw = Idle /\ vo = Idle /\ av = Idle /\ dt = Idle /\ gc = Idle /\ wk = Idle
OnlyVolume == rk = Idle /\ vw = Idle /\ hm = Idle /\ av = Idle /\ dt = Idle /\ gc = Idle /\ wk = Idle
OnlyAnchored == rk = Idle /\ vw = Idle /\ hm = Idle /\ vo = Idle /\ dt = Idle /\ gc = Idle /\ wk = Idle
OnlyDetectors == rk = Idle /\ vw = Idle /\ hm = Idle /\ vo = Idle /\ av = Idle /\ gc = Idle /\ wk = Idle
OnlyGrouping == rk = Idle /\ vw = Idle /\ hm = Idle /\ vo = Idle /\ av = Idle /\ dt = Idle /\ wk = Idle
OnlyWorker == rk = Idle /\ vw = Idle /\ hm = Idle /\ vo = Idle /\ av = Idle /\ dt = Idle /\ gc = Idle

----------------------------------------------------------------------------
(* Arithmetic helpers *)

Abs(x) == IF x < 0 THEN -x ELSE x
Max(a, b) == IF a >= b THEN a ELSE b
Min(a, b) == IF a <= b THEN a ELSE b

RECURSIVE GCD(_, _)
GCD(a, b) == IF b = 0 THEN a ELSE GCD(b, a % b)

\* The reduced fraction n/d (d > 0).
Frac(n, d) ==
    LET g == GCD(Abs(n), d)
    IN  IF g = 0 THEN <<0, 1>> ELSE <<n \div g, d \div g>>

\* Exact arithmetic on fractions.
FInt(n) == <<n, 1>>
FAdd(a, b) == Frac(a[1] * b[2] + b[1] * a[2], a[2] * b[2])
FSub(a, b) == Frac(a[1] * b[2] - b[1] * a[2], a[2] * b[2])
FMul(a, b) == Frac(a[1] * b[1], a[2] * b[2])
FDiv(a, b) == IF b[1] < 0 THEN Frac(-(a[1] * b[2]), a[2] * (-b[1]))
              ELSE Frac(a[1] * b[2], a[2] * b[1])
FLeq(a, b) == a[1] * b[2] <= b[1] * a[2]

SetMax(S) == CHOOSE x \in S : \A y \in S : y <= x
SetMin(S) == CHOOSE x \in S : \A y \in S : x <= y

RECURSIVE SeqSum(_)
SeqSum(s) == IF s = <<>> THEN 0 ELSE s[1] + SeqSum(Tail(s))

\* Array.prototype.slice(-k): the last k elements (all of them if fewer).
LastK(s, k) == IF Len(s) <= k THEN s ELSE SubSeq(s, Len(s) - k + 1, Len(s))

----------------------------------------------------------------------------
(* Renko reconstruction: src/utils/renkoUtils.js *)

\* Bounds of the Renko inputs.
RkMaxCandles == 3
RkMaxClose == 4

\* Program constants.
ATRPeriod == 14
TimeIncrement == 1
\* The candle interval of the inputs (one-minute candles), in seconds.
CandleSeconds == 60
RkBaseTime == 1000

\* calculateATR(data, period) as a fraction <<num, den>> of a tick.
CalculateATR(data, period) ==
    IF data.kind = "null" \/ Len(data.items) < period + 1
    THEN IF data.kind # "null" /\ Len(data.items) > 0
         THEN \* (max - min) * 0.02
              LET prices == {data.items[k].close : k \in 1..Len(data.items)}
              IN  <<(SetMax(prices) - SetMin(prices)) * 2, 100>>
         ELSE <<1, 1>>
    ELSE LET d == data.items
             trueRanges ==
                 [k \in 1..(Len(d) - 1) |->
                     Max(d[k + 1].high - d[k + 1].low,
                         Max(Abs(d[k + 1].high - d[k].close),
                             Abs(d[k + 1].low - d[k].close)))]
             recentTRs == LastK(trueRanges, period)
         IN  <<SeqSum(recentTRs), Len(recentTRs)>>

\* 10^floor(log10(a)) for a fraction a > 0, as a fraction <<mn, md>> one of
\* whose parts is 1.
RECURSIVE MagnitudeUp(_, _)
MagnitudeUp(a, p) ==
    IF (10 * p) * a[2] <= a[1] THEN MagnitudeUp(a, 10 * p) ELSE <<p, 1>>

RECURSIVE MagnitudeDown(_, _)
MagnitudeDown(a, q) ==
    IF a[1] * q >= a[2] THEN <<1, q>> ELSE MagnitudeDown(a, 10 * q)

Magnitude(a) ==
    IF a[1] >= a[2] THEN MagnitudeUp(a, 1) ELSE MagnitudeDown(a, 10)

\* calculateDefaultBrickSize snapping to the nearest of the four multiples
\* (thresholds at the midpoints 1.75, 3.75 and 7.5).
CalculateDefaultBrickSizeNearest(data) ==
    IF data.kind = "null" \/ Len(data.items) = 0 THEN <<1, 1>>
    ELSE LET atr == CalculateATR(data, ATRPeriod)
         IN  IF atr[1] = 0 THEN <<0, 1>>
             ELSE LET magnitude == Magnitude(atr)
                      nn == atr[1] * magnitude[2]
                      nd == atr[2] * magnitude[1]
                      rounded10 ==
                          IF 100 * nn < 175 * nd THEN 10
                          ELSE IF 100 * nn < 375 * nd THEN 25
                          ELSE IF 10 * nn < 75 * nd THEN 50
                          ELSE 100
                  IN  <<rounded10 * magnitude[1], 10 * magnitude[2]>>

\* calculateDefaultBrickSize(data) as a fraction <<n, d>> of a tick.  For
\* atr = 0 the code computes log10(0) = -Infinity, magnitude = 0,
\* normalized = NaN, rounded = 10 and returns 10 * 0 = 0.
CalculateDefaultBrickSize(data) ==
    IF data.kind = "null" \/ Len(data.items) = 0 THEN <<1, 1>>
    ELSE LET atr == CalculateATR(data, ATRPeriod)
         IN  IF atr[1] = 0 THEN <<0, 1>>
             ELSE LET magnitude == Magnitude(atr)
                      \* normalized = atr / magnitude, compared as
                      \* nn / nd < t / 10
                      nn == atr[1] * magnitude[2]
                      nd == atr[2] * magnitude[1]
                      rounded10 ==
                          IF 10 * nn < 15 * nd THEN 10
                          ELSE IF 10 * nn < 35 * nd THEN 25
                          ELSE IF 10 * nn < 75 * nd THEN 50
                          ELSE 100
                  IN  <<rounded10 * magnitude[1], 10 * magnitude[2]>>

\* Lines 58-59 for atr = 0: Math.log10(0) is -Infinity, magnitude is
\* Math.pow(10, -Infinity) = 0, and normalized = atr / magnitude is 0 / 0.
DefaultBrickSizeDividesByZero(data) ==
    /\ data.kind = "array" /\ Len(data.items) > 0
    /\ CalculateATR(data, ATRPeriod)[1] = 0

\* brickSize || calculateDefaultBrickSize(data): null and 0 are falsy.
BoxSize(data, brickSize) ==
    IF brickSize.null \/ brickSize.n = 0
    THEN CalculateDefaultBrickSize(data)
    ELSE <<brickSize.n, 1>>

\* createBrick stamping every brick with the base time (brickIndex unused).
CreateBrickSameTime(baseTime, brickIndex, open, close, direction) ==
    LET isUp == direction = "up"
    IN  [time  |-> baseTime,
         open  |-> open,
         high  |-> IF isUp THEN close ELSE open,
         low   |-> IF isUp THEN open ELSE close,
         close |-> close]

\* createBrick(open, close, direction) with the running brickIndex.
CreateBrick(baseTime, brickIndex, open, close, direction) ==
    LET isUp == direction = "up"
    IN  [time  |-> baseTime + (brickIndex * TimeIncrement),
         open  |-> open,
         high  |-> IF isUp THEN close ELSE open,
         low   |-> IF isUp THEN open ELSE close,
         close |-> close]

\* The inner for-loop stopping after its first brick.
AddBricksAtMostOne(s, baseTime, bricksToAdd, step, direction) ==
    LET n == IF bricksToAdd <= 0 THEN 0 ELSE 1
    IN  [renkoBricks |->
             s.renkoBricks \o
             [j \in 1..n |->
                 CreateBrick(baseTime, s.brickIndex + (j - 1),
                             s.brickPrice + (j - 1) * step,
                             s.brickPrice + j * step, direction)],
         brickPrice  |-> s.brickPrice + n * step,
         brickIndex  |-> s.brickIndex + n]

\* The inner for-loop: bricksToAdd bricks stepping by `step` from brickPrice;
\* iteration j (0-based) opens at brickPrice + j * step with brick index
\* brickIndex + j.  s is [renkoBricks, brickPrice, brickIndex].
AddBricks(s, baseTime, bricksToAdd, step, direction) ==
    LET n == IF bricksToAdd <= 0 THEN 0 ELSE bricksToAdd
    IN  [renkoBricks |->
             s.renkoBricks \o
             [j \in 1..n |->
                 CreateBrick(baseTime, s.brickIndex + (j - 1),
                             s.brickPrice + (j - 1) * step,
                             s.brickPrice + j * step, direction)],
         brickPrice  |-> s.brickPrice + n * step,
         brickIndex  |-> s.brickIndex + n]

\* The loop body with the classical reversal: the first reversal brick opens
\* one box beyond brickPrice (at the open of the last brick), so one brick
\* fewer is drawn.
RenkoCandleReversalGap(s, baseTime, closePrice, boxSize) ==
    LET priceDiff == closePrice - s.brickPrice
        loc == [renkoBricks |-> s.renkoBricks, brickPrice |-> s.brickPrice,
                brickIndex |-> s.brickIndex]
        up == AddBricks(loc, baseTime, priceDiff \div boxSize, boxSize, "up")
        down == AddBricks(loc, baseTime, Abs(priceDiff) \div boxSize, -boxSize, "down")
        upGap == AddBricks([loc EXCEPT !.brickPrice = @ + boxSize], baseTime,
                           (priceDiff \div boxSize) - 1, boxSize, "up")
        downGap == AddBricks([loc EXCEPT !.brickPrice = @ - boxSize], baseTime,
                             (Abs(priceDiff) \div boxSize) - 1, -boxSize, "down")
        With(r, d) == [renkoBricks |-> r.renkoBricks, brickPrice |-> r.brickPrice,
                       brickIndex |-> r.brickIndex, lastDirection |-> d]
    IN  IF s.lastDirection = Null
        THEN IF priceDiff >= boxSize THEN With(up, "up")
             ELSE IF priceDiff <= -boxSize THEN With(down, "down")
             ELSE With(loc, s.lastDirection)
        ELSE IF s.lastDirection = "up"
        THEN IF priceDiff >= boxSize THEN With(up, "up")
             ELSE IF priceDiff <= -2 * boxSize THEN With(downGap, "down")
             ELSE With(loc, s.lastDirection)
        ELSE IF priceDiff <= -boxSize THEN With(down, "down")
             ELSE IF priceDiff >= 2 * boxSize THEN With(upGap, "up")
             ELSE With(loc, s.lastDirection)

\* The loop body with a reversal that needs three box sizes.
RenkoCandleLateReversal(s, baseTime, closePrice, boxSize) ==
    LET priceDiff == closePrice - s.brickPrice
        loc == [renkoBricks |-> s.renkoBricks, brickPrice |-> s.brickPrice,
                brickIndex |-> s.brickIndex]
        up == AddBricks(loc, baseTime, priceDiff \div boxSize, boxSize, "up")
        down == AddBricks(loc, baseTime, Abs(priceDiff) \div boxSize, -boxSize, "down")
        With(r, d) == [renkoBricks |-> r.renkoBricks, brickPrice |-> r.brickPrice,
                       brickIndex |-> r.brickIndex, lastDirection |-> d]
    IN  IF s.lastDirection = Null
        THEN IF priceDiff >= boxSize THEN With(up, "up")
             ELSE IF priceDiff <= -boxSize THEN With(down, "down")
             ELSE With(loc, s.lastDirection)
        ELSE IF s.lastDirection = "up"
        THEN IF priceDiff >= boxSize THEN With(up, "up")
             ELSE IF priceDiff <= -3 * boxSize THEN With(down, "down")
             ELSE With(loc, s.lastDirection)
        ELSE IF priceDiff <= -boxSize THEN With(down, "down")
             ELSE IF priceDiff >= 3 * boxSize THEN With(up, "up")
             ELSE With(loc, s.lastDirection)

\* The body of the loop over the candles for one candle: closePrice and
\* boxSize are in the same unit.  Returns the new locals.
RenkoCandle(s, baseTime, closePrice, boxSize) ==
    LET priceDiff == closePrice - s.brickPrice
        loc == [renkoBricks |-> s.renkoBricks, brickPrice |-> s.brickPrice,
                brickIndex |-> s.brickIndex]
        up == AddBricks(loc, baseTime, priceDiff \div boxSize, boxSize, "up")
        down == AddBricks(loc, baseTime, Abs(priceDiff) \div boxSize, -boxSize, "down")
        With(r, d) == [renkoBricks |-> r.renkoBricks, brickPrice |-> r.brickPrice,
                       brickIndex |-> r.brickIndex, lastDirection |-> d]
    IN  IF s.lastDirection = Null
        THEN IF priceDiff >= boxSize THEN With(up, "up")
             ELSE IF priceDiff <= -boxSize THEN With(down, "down")
             ELSE With(loc, s.lastDirection)
        ELSE IF s.lastDirection = "up"
        THEN IF priceDiff >= boxSize THEN With(up, "up")
             ELSE IF priceDiff <= -2 * boxSize THEN With(down, "down")
             ELSE With(loc, s.lastDirection)
        ELSE IF priceDiff <= -boxSize THEN With(down, "down")
             ELSE IF priceDiff >= 2 * boxSize THEN With(up, "up")
             ELSE With(loc, s.lastDirection)

\* The inputs: null, a value that is not an array, or up to RkMaxCandles
\* one-minute candles.  For calculateRenko OtherData stands for a truthy
\* value without elements, such as {} or 42 (a falsy one behaves as null).
RkCandle(k, c) ==
    [time |-> RkBaseTime + (k - 1) * CandleSeconds,
     open |-> c, high |-> c, low |-> c, close |-> c]

RkDataSet ==
    {NullData, OtherData} \cup
    UNION {{ArrayOf([k \in 1..n |-> RkCandle(k, cs[k])]) : cs \in [1..n -> 0..RkMaxClose]}
           : n \in 0..RkMaxCandles}

RkBrickSizes == {NullNum} \cup {Num(b) : b \in {-1, 0, 1, 2}}

\* The locals of calculateRenko before the function body has run.
RkStart(d, b) ==
    [pc |-> "start", data |-> d, brickSize |-> b,
     boxSize |-> 0, scale |-> 1, renkoBricks |-> <<>>, brickPrice |-> 0,
     lastDirection |-> Null, baseTime |-> 0, brickIndex |-> 0, i |-> 0,
     \* what the last loop iteration saw and did
     prevDirection |-> Null, priceDiff |-> 0, emitted |-> 0,
     \* the number of bricks the loop over the candles produced
     passBricks |-> 0,
     \* the returned array; fallback: it is the input itself
     result |-> <<>>, fallback |-> FALSE]

InitRenko ==
    /\ rk \in {RkStart(d, b) : d \in RkDataSet, b \in RkBrickSizes}
    /\ OnlyRenko

\* Line 77: no data (!data || data.length === 0).
RenkoReturnEmpty ==
    /\ rk.pc = "start"
    /\ (rk.data.kind = "null" \/ (rk.data.kind = "array" /\ Len(rk.data.items) = 0))
    /\ rk' = [rk EXCEPT !.pc = "done", !.result = <<>>]
    /\ UNCHANGED NotRenko

\* Lines 80-82: a box size that is not positive returns the input.
RenkoReturnData ==
    /\ rk.pc = "start"
    /\ rk.data.kind # "null" /\ Len(rk.data.items) > 0
    /\ BoxSize(rk.data, rk.brickSize)[1] <= 0
    /\ rk' = [rk EXCEPT !.pc = "done", !.result = rk.data.items, !.fallback = TRUE]
    /\ UNCHANGED NotRenko

\* Lines 77-82 for a truthy value that is not an array: data.length is
\* undefined, so line 77 does not return; a negative brickSize returns the
\* value itself at line 82.
RenkoReturnNonArray ==
    /\ rk.pc = "start"
    /\ rk.data.kind = "other"
    /\ ~rk.brickSize.null /\ rk.brickSize.n < 0
    /\ rk' = [rk EXCEPT !.pc = "done", !.fallback = TRUE]
    /\ UNCHANGED NotRenko

\* Lines 80-85 for a truthy value that is not an array: boxSize is the
\* positive brickSize, or NaN from calculateDefaultBrickSize (the ATR of no
\* true range is 0 / 0), neither is <= 0, and data[0].close throws a
\* TypeError.
RenkoThrow ==
    /\ rk.pc = "start"
    /\ rk.data.kind = "other"
    /\ (rk.brickSize.null \/ rk.brickSize.n >= 0)
    /\ rk' = [rk EXCEPT !.pc = "thrown"]
    /\ UNCHANGED NotRenko

\* Lines 84-93: the locals before the loop.  Prices are kept in units of
\* 1/scale tick, so that the box size is the integer boxSize.
RenkoBegin ==
    /\ rk.pc = "start"
    /\ rk.data.kind # "null" /\ Len(rk.data.items) > 0
    /\ LET box == BoxSize(rk.data, rk.brickSize)
           currentPrice == rk.data.items[1].close * box[2]
       IN  /\ box[1] > 0
           /\ rk' = [rk EXCEPT !.pc = "loop",
                               !.boxSize = box[1], !.scale = box[2],
                               !.renkoBricks = <<>>,
                               !.brickPrice = (currentPrice \div box[1]) * box[1],
                               !.lastDirection = Null,
                               !.baseTime = rk.data.items[1].time,
                               !.brickIndex = 0,
                               !.i = 0]
    /\ UNCHANGED NotRenko

\* Lines 109-185: one iteration of the loop over the candles.
RenkoStep ==
    /\ rk.pc = "loop"
    /\ rk.i < Len(rk.data.items)
    /\ LET closePrice == rk.data.items[rk.i + 1].close * rk.scale
           n == RenkoCandle(rk, rk.baseTime, closePrice, rk.boxSize)
       IN  rk' = [rk EXCEPT !.renkoBricks = n.renkoBricks,
                            !.brickPrice = n.brickPrice,
                            !.brickIndex = n.brickIndex,
                            !.lastDirection = n.lastDirection,
                            !.i = rk.i + 1,
                            !.prevDirection = rk.lastDirection,
                            !.priceDiff = closePrice - rk.brickPrice,
                            !.emitted = Len(n.renkoBricks) - Len(rk.renkoBricks)]
    /\ UNCHANGED NotRenko

\* The synthetic brick built from the first candle alone.
SyntheticBrickFirstOnly(data, scale, baseTime, brickIndex) ==
    [time |-> baseTime + (brickIndex * TimeIncrement),
     open |-> data[1].close * scale, high |-> data[1].close * scale,
     low |-> data[1].close * scale, close |-> data[1].close * scale]

\* Lines 189-197: the single brick spanning the first and the last close.
SyntheticBrick(data, scale, baseTime, brickIndex) ==
    LET firstCandle == data[1]
        lastCandle == data[Len(data)]
        direction == IF lastCandle.close >= firstCandle.close THEN "up" ELSE "down"
    IN  CreateBrick(baseTime, brickIndex, firstCandle.close * scale,
                    lastCandle.close * scale, direction)

\* Lines 187-200: the end of the loop and the return.
RenkoReturn ==
    /\ rk.pc = "loop"
    /\ rk.i = Len(rk.data.items)
    /\ LET synthetic == Len(rk.renkoBricks) = 0 /\ Len(rk.data.items) > 0
           bricks ==
               IF synthetic
               THEN Append(rk.renkoBricks,
                        SyntheticBrick(rk.data.items, rk.scale, rk.baseTime,
                                       rk.brickIndex))
               ELSE rk.renkoBricks
       IN  rk' = [rk EXCEPT !.pc = "done",
                            !.passBricks = Len(rk.renkoBricks),
                            !.renkoBricks = bricks,
                            !.brickIndex = IF synthetic THEN @ + 1 ELSE @,
                            !.result = bricks]
    /\ UNCHANGED NotRenko

NextRenko ==
    \/ RenkoReturnEmpty
    \/ RenkoReturnNonArray
    \/ RenkoThrow
    \/ RenkoReturnData
    \/ RenkoBegin
    \/ RenkoStep
    \/ RenkoReturn

SpecRenko == InitRenko /\ [][NextRenko]_vars

----------------------------------------------------------------------------
(* calculateDefaultBrickSize on its own: src/utils/renkoUtils.js *)

\* Bound of the inputs: the largest price range, in ticks.
BsMaxRange == 100

\* The inputs: null, no candle, two candles whose closes differ by `range`
\* (fewer than 15 candles: the ATR is 2% of the range of the closes), and 15
\* candles with a constant close and a high `range` above the low (the ATR is
\* the average true range, `range`).
BsCandle(k, close, high, low) ==
    [time |-> RkBaseTime + (k - 1) * CandleSeconds,
     open |-> close, high |-> high, low |-> low, close |-> close]

BsDataSet ==
    {NullData, ArrayOf(<<>>)}
    \cup {ArrayOf(<<BsCandle(1, 10, 10, 10), BsCandle(2, 10 + range, 10 + range, 10 + range)>>) :
             range \in 0..BsMaxRange}
    \cup {ArrayOf([k \in 1..(ATRPeriod + 1) |-> BsCandle(k, 10, 10 + range, 10)]) :
             range \in 0..BsMaxRange}

InitBrickSize ==
    /\ rk \in {[pc |-> "size", data |-> d, atr |-> <<0, 1>>, result |-> <<0, 1>>] :
                  d \in BsDataSet}
    /\ OnlyRenko

\* Lines 51-68: the call of calculateDefaultBrickSize(data); atr is the value
\* of line 55 (when the line is reached).  Both are kept as reduced
\* fractions.
DefaultBrickSize ==
    /\ rk.pc = "size"
    /\ rk' = [rk EXCEPT !.pc = "sized",
                        !.atr = Frac(CalculateATR(rk.data, ATRPeriod)[1],
                                     CalculateATR(rk.data, ATRPeriod)[2]),
                        !.result = Frac(CalculateDefaultBrickSize(rk.data)[1],
                                        CalculateDefaultBrickSize(rk.data)[2])]
    /\ UNCHANGED NotRenko

NextBrickSize == DefaultBrickSize

SpecBrickSize == InitBrickSize /\ [][NextBrickSize]_vars

----------------------------------------------------------------------------
(* VWAP family: src/utils/indicators/vwap.js *)

\* Bound of the VWAP inputs: the number of bars.
VwMaxBars == 3

\* The runtime's local time zone, minutes east of UTC (Date#getHours,
\* Date#toDateString are local).
LocalOffsetMinutes == 330

\* EXCHANGE_OPEN_MINUTES and getMarketOpenMinutes(exchange): an exchange that
\* is not in the table gets the NSE entry.
ExchangeOpenMinutes(exchange) ==
    CASE exchange \in {"NSE", "BSE", "NFO", "BFO", "NSE_INDEX", "BSE_INDEX"} -> 9 * 60 + 15
      [] exchange \in {"MCX", "CDS", "BCD"} -> 9 * 60
      [] OTHER -> 9 * 60 + 15

\* The table with the commodity exchanges opening at the NSE time.
GetMarketOpenMinutesAllNSE(exchange) == 9 * 60 + 15

GetMarketOpenMinutes(exchange) == ExchangeOpenMinutes(exchange)

\* new Date(time * 1000) in local time: whole minutes since the epoch, the
\* calendar day (what toDateString distinguishes) and getHours() * 60 +
\* getMinutes().
LocalMinutes(time) == (time \div 60) + LocalOffsetMinutes
LocalDay(time) == LocalMinutes(time) \div 1440
MinutesFromMidnight(time) == LocalMinutes(time) % 1440

\* Lines 91-110: the session key of a candle (a calendar day).
SessionKey(time, resetAtMarketOpen, marketOpenMinutes) ==
    IF resetAtMarketOpen
    THEN IF MinutesFromMidnight(time) < marketOpenMinutes
         THEN LocalDay(time) - 1
         ELSE LocalDay(time)
    ELSE LocalDay(time)

\* Lines 77-83 and 122-128: three times the price selected by sourceKey
\* (hlc3 is (high + low + close) / 3).
SourcePrice3(candle, sourceKey) ==
    CASE sourceKey = "close" -> 3 * candle.close
      [] sourceKey = "open" -> 3 * candle.open
      [] sourceKey = "high" -> 3 * candle.high
      [] sourceKey = "low" -> 3 * candle.low
      [] OTHER -> candle.high + candle.low + candle.close

\* candle.volume || 0
VolumeOrZero(candle) == IF candle.volume.null THEN 0 ELSE candle.volume.n

\* A {time, value} point; value is a fraction <<num, den>> of a price, and
\* NullValue stands for null.
NullValue == <<0, 0>>
Point(time, value) == [time |-> time, value |-> value]
LastValue(out) == IF Len(out) > 0 THEN out[Len(out)].value ELSE NullValue

\* cumTPV / cumVolume.  Prices are accumulated in thirds and volumes in
\* fifths (0.4 * volume is 2 fifths of volume), so the quotient of the two
\* sums is three times the VWAP.
Quotient(cumTPV, cumVolume) == Frac(cumTPV, 3 * cumVolume)

\* The locals of one loop of the family, as [cumTPV, cumVolume,
\* cumTPVSquared, lastSessionKey, out, reset, skipped, stdDevSq].
\* reset: the iteration zeroed the accumulators; skipped: it took the
\* zero-volume branch.

\* calculateVWAP without the session reset.
VWAPCandleNoReset(s, candle, o) ==
    LET volume == IF o.ignoreVolume THEN 1 ELSE VolumeOrZero(candle)
        price3 == SourcePrice3(candle, o.sourceKey)
    IN  IF volume = 0 /\ ~o.ignoreVolume
        THEN [s EXCEPT !.out = Append(s.out, Point(candle.time,
                                  IF Len(s.out) > 0 THEN LastValue(s.out)
                                  ELSE Frac(price3, 3))),
                       !.reset = FALSE, !.skipped = TRUE]
        ELSE [s EXCEPT !.cumTPV = @ + price3 * (5 * volume),
                       !.cumVolume = @ + 5 * volume,
                       !.out = Append(s.out, Point(candle.time,
                                  Quotient(s.cumTPV + price3 * (5 * volume),
                                           s.cumVolume + 5 * volume))),
                       !.reset = FALSE, !.skipped = FALSE]

\* calculateVWAP counting every bar once in cumVolume (cumVolume += 1).
VWAPCandleUnitDivisor(s, candle, o) ==
    LET volume == IF o.ignoreVolume THEN 1 ELSE VolumeOrZero(candle)
        price3 == SourcePrice3(candle, o.sourceKey)
    IN  IF volume = 0 /\ ~o.ignoreVolume
        THEN [s EXCEPT !.out = Append(s.out, Point(candle.time,
                                  IF Len(s.out) > 0 THEN LastValue(s.out)
                                  ELSE Frac(price3, 3))),
                       !.reset = FALSE, !.skipped = TRUE]
        ELSE LET sessionKey == SessionKey(candle.time, o.resetAtMarketOpen,
                                          GetMarketOpenMinutes(o.exchange))
                 doReset == o.resetDaily /\ ~s.lastSessionKey.null
                            /\ sessionKey # s.lastSessionKey.n
                 cumTPV == (IF doReset THEN 0 ELSE s.cumTPV) + price3 * (5 * volume)
                 cumVolume == (IF doReset THEN 0 ELSE s.cumVolume) + 5
             IN  [s EXCEPT !.cumTPV = cumTPV, !.cumVolume = cumVolume,
                           !.lastSessionKey =
                               IF o.resetDaily THEN Num(sessionKey) ELSE @,
                           !.out = Append(s.out, Point(candle.time,
                                                      Quotient(cumTPV, cumVolume))),
                           !.reset = doReset, !.skipped = FALSE]

\* calculateVWAP with the session check before the zero-volume branch (the
\* order of calculateVWAPBands): a bar without volume resets the
\* accumulators and is remembered as the last session.
VWAPCandleSessionFirst(s, candle, o) ==
    LET volume == IF o.ignoreVolume THEN 1 ELSE VolumeOrZero(candle)
        price3 == SourcePrice3(candle, o.sourceKey)
        sessionKey == SessionKey(candle.time, o.resetAtMarketOpen,
                                 GetMarketOpenMinutes(o.exchange))
        doReset == o.resetDaily /\ ~s.lastSessionKey.null
                   /\ sessionKey # s.lastSessionKey.n
        cumTPV0 == IF doReset THEN 0 ELSE s.cumTPV
        cumVolume0 == IF doReset THEN 0 ELSE s.cumVolume
        lastKey == IF o.resetDaily THEN Num(sessionKey) ELSE s.lastSessionKey
    IN  IF volume = 0 /\ ~o.ignoreVolume
        THEN [s EXCEPT !.cumTPV = cumTPV0, !.cumVolume = cumVolume0,
                       !.lastSessionKey = lastKey,
                       !.out = Append(s.out, Point(candle.time,
                                  IF Len(s.out) > 0 THEN LastValue(s.out)
                                  ELSE Frac(price3, 3))),
                       !.reset = doReset, !.skipped = TRUE]
        ELSE [s EXCEPT !.cumTPV = cumTPV0 + price3 * (5 * volume),
                       !.cumVolume = cumVolume0 + 5 * volume,
                       !.lastSessionKey = lastKey,
                       !.out = Append(s.out, Point(candle.time,
                                  Quotient(cumTPV0 + price3 * (5 * volume),
                                           cumVolume0 + 5 * volume))),
                       !.reset = doReset, !.skipped = FALSE]

\* Lines 67-138: the loop body of calculateVWAP for one candle.
VWAPCandle(s, candle, o) ==
    LET volume == IF o.ignoreVolume THEN 1 ELSE VolumeOrZero(candle)
        price3 == SourcePrice3(candle, o.sourceKey)
    IN  IF volume = 0 /\ ~o.ignoreVolume
        THEN LET fallbackValue ==
                     IF Len(s.out) > 0 THEN LastValue(s.out) ELSE Frac(price3, 3)
             IN  [s EXCEPT !.out = Append(s.out, Point(candle.time, fallbackValue)),
                           !.reset = FALSE, !.skipped = TRUE]
        ELSE LET sessionKey == SessionKey(candle.time, o.resetAtMarketOpen,
                                          GetMarketOpenMinutes(o.exchange))
                 doReset == o.resetDaily /\ ~s.lastSessionKey.null
                            /\ sessionKey # s.lastSessionKey.n
                 cumTPV0 == IF doReset THEN 0 ELSE s.cumTPV
                 cumVolume0 == IF doReset THEN 0 ELSE s.cumVolume
                 cumTPV == cumTPV0 + price3 * (5 * volume)
                 cumVolume == cumVolume0 + 5 * volume
                 vwap == IF cumVolume > 0 THEN Quotient(cumTPV, cumVolume)
                         ELSE Frac(price3, 3)
             IN  [s EXCEPT !.cumTPV = cumTPV, !.cumVolume = cumVolume,
                           !.lastSessionKey =
                               IF o.resetDaily THEN Num(sessionKey) ELSE @,
                           !.out = Append(s.out, Point(candle.time, vwap)),
                           !.reset = doReset, !.skipped = FALSE]

\* Lines 165-167 and 222-224: the attributed volume in fifths of a unit; 0
\* stands for every falsy value (0, undefined, NaN).
BuyVolume5(candle) ==
    IF ~candle.buyVolume.null THEN 5 * candle.buyVolume.n
    ELSE IF candle.volume.null THEN 0
    ELSE IF candle.close >= candle.open THEN 5 * candle.volume.n
    ELSE 2 * candle.volume.n

SellVolume5(candle) ==
    IF ~candle.sellVolume.null THEN 5 * candle.sellVolume.n
    ELSE IF candle.volume.null THEN 0
    ELSE IF candle.close < candle.open THEN 5 * candle.volume.n
    ELSE 2 * candle.volume.n

\* candle.buyVwap || candle.high and candle.sellVwap || candle.low, times 3.
BuyPrice3(candle) ==
    IF ~candle.buyVwap.null /\ candle.buyVwap.n # 0
    THEN 3 * candle.buyVwap.n ELSE 3 * candle.high

SellPrice3(candle) ==
    IF ~candle.sellVwap.null /\ candle.sellVwap.n # 0
    THEN 3 * candle.sellVwap.n ELSE 3 * candle.low

\* The Buy/Sell loop body that pushes the last value for a bar without
\* attributed volume even when there is none yet (a null point).
SideVWAPCandleNullFill(s, candle, resetDaily, volume5, price3) ==
    IF volume5 = 0
    THEN [s EXCEPT !.out = Append(s.out, Point(candle.time, LastValue(s.out))),
                   !.reset = FALSE, !.skipped = TRUE]
    ELSE LET currentDate == LocalDay(candle.time)
             doReset == resetDaily /\ ~s.lastSessionKey.null
                        /\ currentDate # s.lastSessionKey.n
             cumTPV == (IF doReset THEN 0 ELSE s.cumTPV) + price3 * volume5
             cumVolume == (IF doReset THEN 0 ELSE s.cumVolume) + volume5
         IN  [s EXCEPT !.cumTPV = cumTPV, !.cumVolume = cumVolume,
                       !.lastSessionKey = IF resetDaily THEN Num(currentDate) ELSE @,
                       !.out = Append(s.out, Point(candle.time,
                                                   Quotient(cumTPV, cumVolume))),
                       !.reset = doReset, !.skipped = FALSE]

\* The Buy/Sell loop body that never remembers the date of the last bar.
SideVWAPCandleNoLastDate(s, candle, resetDaily, volume5, price3) ==
    IF volume5 = 0
    THEN [s EXCEPT !.out = IF LastValue(s.out) # NullValue
                           THEN Append(s.out, Point(candle.time, LastValue(s.out)))
                           ELSE s.out,
                   !.reset = FALSE, !.skipped = TRUE]
    ELSE [s EXCEPT !.cumTPV = @ + price3 * volume5,
                   !.cumVolume = @ + volume5,
                   !.out = Append(s.out, Point(candle.time,
                              Quotient(s.cumTPV + price3 * volume5,
                                       s.cumVolume + volume5))),
                   !.reset = FALSE, !.skipped = FALSE]

\* Lines 162-195 and 219-252: the loop body shared by calculateBuyVWAP and
\* calculateSellVWAP, for the attributed volume and the aggressor price.
SideVWAPCandle(s, candle, resetDaily, volume5, price3) ==
    IF volume5 = 0
    THEN [s EXCEPT !.out = IF LastValue(s.out) # NullValue
                           THEN Append(s.out, Point(candle.time, LastValue(s.out)))
                           ELSE s.out,
                   !.reset = FALSE, !.skipped = TRUE]
    ELSE LET currentDate == LocalDay(candle.time)
             doReset == resetDaily /\ ~s.lastSessionKey.null
                        /\ currentDate # s.lastSessionKey.n
             cumTPV == (IF doReset THEN 0 ELSE s.cumTPV) + price3 * volume5
             cumVolume == (IF doReset THEN 0 ELSE s.cumVolume) + volume5
             value == IF cumVolume > 0 THEN Quotient(cumTPV, cumVolume)
                      ELSE Frac(price3, 3)
         IN  [s EXCEPT !.cumTPV = cumTPV, !.cumVolume = cumVolume,
                       !.lastSessionKey = IF resetDaily THEN Num(currentDate) ELSE @,
                       !.out = Append(s.out, Point(candle.time, value)),
                       !.reset = doReset, !.skipped = FALSE]

BuyVWAPCandle(s, candle, resetDaily) ==
    SideVWAPCandle(s, candle, resetDaily, BuyVolume5(candle), BuyPrice3(candle))

SellVWAPCandle(s, candle, resetDaily) ==
    SideVWAPCandle(s, candle, resetDaily, SellVolume5(candle), SellPrice3(candle))

\* Lines 378-419: the loop body of calculateVWAPBands.  Each element of
\* bands carries stdDev squared: the five series are value, value +/- stdDev
\* and value +/- stdDev * stdDevMultiplier.
VWAPBandsCandle(s, candle, resetDaily) ==
    LET volume == VolumeOrZero(candle)
        currentDate == LocalDay(candle.time)
        doReset == resetDaily /\ ~s.lastSessionKey.null
                   /\ currentDate # s.lastSessionKey.n
        lastDate == IF resetDaily THEN Num(currentDate) ELSE s.lastSessionKey
        cumTPV0 == IF doReset THEN 0 ELSE s.cumTPV
        cumVolume0 == IF doReset THEN 0 ELSE s.cumVolume
        cumTPVSquared0 == IF doReset THEN 0 ELSE s.cumTPVSquared
    IN  IF volume = 0
        THEN [s EXCEPT !.cumTPV = cumTPV0, !.cumVolume = cumVolume0,
                       !.cumTPVSquared = cumTPVSquared0,
                       !.lastSessionKey = lastDate,
                       !.out = Append(s.out, Point(candle.time, LastValue(s.out))),
                       !.bands = Append(s.bands, [time |-> candle.time,
                                                  stdDevSq |-> <<0, 1>>]),
                       !.reset = doReset, !.skipped = TRUE]
        ELSE LET typicalPrice3 == candle.high + candle.low + candle.close
                 cumTPV == cumTPV0 + typicalPrice3 * (5 * volume)
                 cumVolume == cumVolume0 + 5 * volume
                 cumTPVSquared == cumTPVSquared0
                                  + typicalPrice3 * typicalPrice3 * (5 * volume)
                 \* cumTPVSquared / cumVolume - vwap * vwap, with the factor 9
                 \* of the squared thirds divided out
                 varianceNum == cumTPVSquared * cumVolume - cumTPV * cumTPV
                 variance == Frac(Max(0, varianceNum), 9 * cumVolume * cumVolume)
             IN  [s EXCEPT !.cumTPV = cumTPV, !.cumVolume = cumVolume,
                           !.cumTPVSquared = cumTPVSquared,
                           !.lastSessionKey = lastDate,
                           !.out = Append(s.out, Point(candle.time,
                                                      Quotient(cumTPV, cumVolume))),
                           !.bands = Append(s.bands, [time |-> candle.time,
                                                      stdDevSq |-> variance]),
                           !.reset = doReset, !.skipped = FALSE]

\* The bars: local <<day, minutes from midnight>> of the candidate bars, the
\* OHLC shapes and the volumes (NullNum: the candle has no volume field).
VwSlots == << <<1, 10 * 60>>, <<2, 8 * 60 + 55>>, <<2, 9 * 60 + 5>>, <<2, 10 * 60>> >>

VwTime(slot) == ((slot[1] * 1440 + slot[2]) - LocalOffsetMinutes) * 60

VwShapes == {[open |-> 0, high |-> 3, low |-> 0, close |-> 3],
             [open |-> 3, high |-> 3, low |-> 0, close |-> 0]}

VwVolumes == {NullNum, Num(0), Num(1), Num(2)}

VwCandle(slot, shape, volume) ==
    [time |-> VwTime(slot), open |-> shape.open, high |-> shape.high,
     low |-> shape.low, close |-> shape.close, volume |-> volume,
     buyVolume |-> NullNum, sellVolume |-> NullNum,
     buyVwap |-> NullNum, sellVwap |-> NullNum]

\* Arrays of up to VwMaxBars bars in ascending time order.
VwArrays ==
    UNION {{[k \in 1..n |-> VwCandle(VwSlots[sl[k]], sh[k], vols[k])] :
                sl \in {f \in [1..n -> 1..Len(VwSlots)] :
                            \A k \in 1..(n - 1) : f[k] < f[k + 1]},
                sh \in [1..n -> VwShapes],
                vols \in [1..n -> VwVolumes]}
           : n \in 0..VwMaxBars}

VwDataSet == {NullData, OtherData} \cup {ArrayOf(a) : a \in VwArrays}

\* String(source).toLowerCase()
ToLowerCase(source) ==
    CASE source = "Close" -> "close"
      [] source = "HLC3" -> "hlc3"
      [] OTHER -> source

\* The options of the four functions.  The Buy, Sell and Bands variants take
\* resetDaily alone; for them the other fields are not read.
VwDefaults(fn, resetDaily) ==
    [fn |-> fn, resetDaily |-> resetDaily, exchange |-> "NSE",
     resetAtMarketOpen |-> FALSE, sourceKey |-> "hlc3", ignoreVolume |-> FALSE]

VwOptions ==
    {[fn |-> "calculateVWAP", resetDaily |-> r.resetDaily, exchange |-> r.exchange,
      resetAtMarketOpen |-> r.resetAtMarketOpen,
      sourceKey |-> ToLowerCase(source), ignoreVolume |-> ignoreVolume] :
        r \in {[resetDaily |-> FALSE, resetAtMarketOpen |-> FALSE, exchange |-> "NSE"],
               [resetDaily |-> TRUE, resetAtMarketOpen |-> FALSE, exchange |-> "NSE"],
               [resetDaily |-> TRUE, resetAtMarketOpen |-> TRUE, exchange |-> "NSE"],
               [resetDaily |-> TRUE, resetAtMarketOpen |-> TRUE, exchange |-> "MCX"]},
        source \in {"Close", "hlc3"},
        ignoreVolume \in BOOLEAN}
    \cup {VwDefaults(fn, resetDaily) :
            fn \in {"calculateBuyVWAP", "calculateSellVWAP", "calculateVWAPBands"},
            resetDaily \in BOOLEAN}

\* The locals before the loop.
VwStart(d, o) ==
    [pc |-> "loop", data |-> d, o |-> o, i |-> 0,
     cumTPV |-> 0, cumVolume |-> 0, cumTPVSquared |-> 0,
     lastSessionKey |-> NullNum, out |-> <<>>, bands |-> <<>>,
     reset |-> FALSE, skipped |-> FALSE, result |-> <<>>]

InitVWAP ==
    /\ vw \in {VwStart(d, o) : d \in VwDataSet, o \in VwOptions}
    /\ OnlyVWAP

\* Lines 55-57, 153-155, 210-212, 363-365: not an array, or empty.
VWAPReturnEmpty ==
    /\ vw.pc = "loop" /\ vw.i = 0
    /\ (vw.data.kind # "array" \/ Len(vw.data.items) = 0)
    /\ vw' = [vw EXCEPT !.pc = "done", !.result = <<>>]
    /\ UNCHANGED NotVWAP

VwLoop(fn) ==
    /\ vw.pc = "loop"
    /\ vw.o.fn = fn
    /\ vw.data.kind = "array"
    /\ vw.i < Len(vw.data.items)

VWAPStep ==
    /\ VwLoop("calculateVWAP")
    /\ vw' = [VWAPCandle(vw, vw.data.items[vw.i + 1], vw.o) EXCEPT !.i = vw.i + 1]
    /\ UNCHANGED NotVWAP

BuyVWAPStep ==
    /\ VwLoop("calculateBuyVWAP")
    /\ vw' = [BuyVWAPCandle(vw, vw.data.items[vw.i + 1], vw.o.resetDaily)
                  EXCEPT !.i = vw.i + 1]
    /\ UNCHANGED NotVWAP

SellVWAPStep ==
    /\ VwLoop("calculateSellVWAP")
    /\ vw' = [SellVWAPCandle(vw, vw.data.items[vw.i + 1], vw.o.resetDaily)
                  EXCEPT !.i = vw.i + 1]
    /\ UNCHANGED NotVWAP

VWAPBandsStep ==
    /\ VwLoop("calculateVWAPBands")
    /\ vw' = [VWAPBandsCandle(vw, vw.data.items[vw.i + 1], vw.o.resetDaily)
                  EXCEPT !.i = vw.i + 1]
    /\ UNCHANGED NotVWAP

\* Lines 140, 197, 254, 422-428: the return after the last bar.
VWAPReturn ==
    /\ vw.pc = "loop"
    /\ vw.data.kind = "array"
    /\ Len(vw.data.items) > 0
    /\ vw.i = Len(vw.data.items)
    /\ vw' = [vw EXCEPT !.pc = "done", !.result = vw.out]
    /\ UNCHANGED NotVWAP

NextVWAP ==
    \/ VWAPReturnEmpty
    \/ VWAPStep
    \/ BuyVWAPStep
    \/ SellVWAPStep
    \/ VWAPBandsStep
    \/ VWAPReturn

SpecVWAP == InitVWAP /\ [][NextVWAP]_vars

----------------------------------------------------------------------------
(* Hilenga-Milenga (RSI with EMA and WMA of the RSI): src/unnamed/part_000 *)

\* Bounds of the inputs: the number of candles and the largest of rsiLength,
\* emaLength, wmaLength; the closes of the candles.
HmMaxCandles == 5
HmMaxLength == 3
HmCloses == 0..2
HmBaseTime == 5000

\* Line 18: the guard of calculateHilengaMilenga.
InsufficientDataRsiOnly(data, rsiLength, wmaLength) ==
    data.kind # "array" \/ Len(data.items) < rsiLength + 1

InsufficientData(data, rsiLength, wmaLength) ==
    data.kind # "array" \/ Len(data.items) < Max(rsiLength, wmaLength) + 1

\* The RSI with the literal 100 when there is no loss.
RSIOfLiteral100(avgGain, avgLoss) ==
    IF avgLoss[1] = 0 THEN FInt(100)
    ELSE FSub(FInt(100), FDiv(FInt(100), FAdd(FInt(1), FDiv(avgGain, avgLoss))))

\* The RSI with the quotient term doubled (100 - 200 / (1 + rs)).
RSIOfDoubled(avgGain, avgLoss) ==
    LET rs == IF avgLoss[1] = 0 THEN FInt(100) ELSE FDiv(avgGain, avgLoss)
    IN  FSub(FInt(100), FDiv(FInt(200), FAdd(FInt(1), rs)))

\* Lines 94-96 and 104-105: RSI from the two averages.
RSIOf(avgGain, avgLoss) ==
    LET rs == IF avgLoss[1] = 0 THEN FInt(100) ELSE FDiv(avgGain, avgLoss)
    IN  FSub(FInt(100), FDiv(FInt(100), FAdd(FInt(1), rs)))

\* Lines 78-82: the gains and losses of the consecutive closes
\* (gains[k] is from candle k to candle k + 1, 1-based).
Gains(d) ==
    [k \in 1..(Len(d) - 1) |->
        IF d[k + 1].close - d[k].close > 0 THEN d[k + 1].close - d[k].close ELSE 0]

Losses(d) ==
    [k \in 1..(Len(d) - 1) |->
        IF d[k + 1].close - d[k].close < 0 THEN Abs(d[k + 1].close - d[k].close) ELSE 0]

\* Lines 100-107: Wilder's smoothing from index i (0-based) of gains on.
RECURSIVE WilderLoop(_, _, _, _, _, _, _)
WilderLoop(d, gains, losses, period, i, avg, rsiData) ==
    IF i >= Len(gains) THEN rsiData
    ELSE LET avgGain == FDiv(FAdd(FMul(avg.gain, FInt(period - 1)), FInt(gains[i + 1])),
                             FInt(period))
             avgLoss == FDiv(FAdd(FMul(avg.loss, FInt(period - 1)), FInt(losses[i + 1])),
                             FInt(period))
         IN  WilderLoop(d, gains, losses, period, i + 1,
                        [gain |-> avgGain, loss |-> avgLoss],
                        Append(rsiData, Point(d[i + 2].time, RSIOf(avgGain, avgLoss))))

\* The smoothing loop stamping each point with the earlier candle
\* (data[i] instead of data[i + 1]).
CalculateRSIValuesLateStamp(d, period) ==
    IF Len(d) < period + 1 THEN <<>>
    ELSE LET gains == Gains(d)
             losses == Losses(d)
             avgGain == Frac(SeqSum(SubSeq(gains, 1, period)), period)
             avgLoss == Frac(SeqSum(SubSeq(losses, 1, period)), period)
             all == WilderLoop(d, gains, losses, period, period,
                               [gain |-> avgGain, loss |-> avgLoss],
                               <<Point(d[period + 1].time, RSIOf(avgGain, avgLoss))>>)
         IN  [j \in 1..Len(all) |->
                 IF j = 1 THEN all[j] ELSE Point(d[period + j - 1].time, all[j].value)]

\* Lines 68-110: calculateRSIValues(data, period).
CalculateRSIValues(d, period) ==
    IF Len(d) < period + 1 THEN <<>>
    ELSE LET gains == Gains(d)
             losses == Losses(d)
             avgGain == Frac(SeqSum(SubSeq(gains, 1, period)), period)
             avgLoss == Frac(SeqSum(SubSeq(losses, 1, period)), period)
         IN  WilderLoop(d, gains, losses, period, period,
                        [gain |-> avgGain, loss |-> avgLoss],
                        <<Point(d[period + 1].time, RSIOf(avgGain, avgLoss))>>)

\* Lines 85-92 and 101-102: the values avgGain and avgLoss take, one pair per
\* RSI value pushed (the first from the simple averages, the others from
\* Wilder's recurrence).
RECURSIVE WilderAverages(_, _, _, _, _)
WilderAverages(gains, losses, period, i, avgs) ==
    IF i >= Len(gains) THEN avgs
    ELSE LET avg == avgs[Len(avgs)]
             avgGain == FDiv(FAdd(FMul(avg.gain, FInt(period - 1)), FInt(gains[i + 1])),
                             FInt(period))
             avgLoss == FDiv(FAdd(FMul(avg.loss, FInt(period - 1)), FInt(losses[i + 1])),
                             FInt(period))
         IN  WilderAverages(gains, losses, period, i + 1,
                            Append(avgs, [gain |-> avgGain, loss |-> avgLoss]))

Averages(d, period) ==
    IF Len(d) < period + 1 THEN <<>>
    ELSE WilderAverages(Gains(d), Losses(d), period, period,
             <<[gain |-> Frac(SeqSum(SubSeq(Gains(d), 1, period)), period),
                loss |-> Frac(SeqSum(SubSeq(Losses(d), 1, period)), period)]>>)

RECURSIVE FSum(_)
FSum(s) == IF s = <<>> THEN FInt(0) ELSE FAdd(s[1], FSum(Tail(s)))

\* Lines 131-135: the exponential recurrence from index i (0-based) on.
RECURSIVE EMALoop(_, _, _, _, _)
EMALoop(values, k, i, prevEma, emaData) ==
    IF i >= Len(values) THEN emaData
    ELSE LET ema == FAdd(FMul(FSub(values[i + 1], prevEma), k), prevEma)
         IN  EMALoop(values, k, i + 1, ema, Append(emaData, ema))

\* Lines 115-138: calculateEMAOfValues(values, period).
CalculateEMAOfValues(values, period) ==
    IF Len(values) < period THEN <<>>
    ELSE LET k == Frac(2, period + 1)
             prevEma == FDiv(FSum(SubSeq(values, 1, period)), FInt(period))
         IN  EMALoop(values, k, period, prevEma, <<prevEma>>)

\* The weighted average asking for more values than the period.
CalculateWMAOfValuesStrict(values, period) ==
    IF Len(values) <= period THEN <<>>
    ELSE LET weightSum == (period * (period + 1)) \div 2
         IN  [m \in 1..(Len(values) - period + 1) |->
                 FDiv(FSum([j \in 1..period |->
                               FMul(values[(m - 1) + j], FInt(j))]),
                      FInt(weightSum))]

\* Lines 144-162: calculateWMAOfValues(values, period).
CalculateWMAOfValues(values, period) ==
    IF Len(values) < period THEN <<>>
    ELSE LET weightSum == (period * (period + 1)) \div 2
         IN  [m \in 1..(Len(values) - period + 1) |->
                 \* i = period - 1 + (m - 1) (0-based)
                 FDiv(FSum([j \in 1..period |->
                               FMul(values[(m - 1) + j], FInt(j))]),
                      FInt(weightSum))]

\* Lines 40 and 52: emaStartIndex, wmaStartIndex.
StartIndexOffByOne(length) == length

StartIndex(length) == length - 1

\* Lines 39-48 and 51-60: a smoothed line aligned to the RSI times; value i
\* (0-based) is kept if startIndex + i is an index of rsiValues.
RECURSIVE BuildLine(_, _, _, _)
BuildLine(values, rsiValues, startIndex, i) ==
    IF i >= Len(values) THEN <<>>
    ELSE (IF startIndex + i < Len(rsiValues)
          THEN <<Point(rsiValues[startIndex + i + 1].time, values[i + 1])>>
          ELSE <<>>)
         \o BuildLine(values, rsiValues, startIndex, i + 1)

\* The inputs.
HmCandle(k, c) ==
    [time |-> HmBaseTime + (k - 1) * CandleSeconds, close |-> c]

\* 30 candles whose closes rise by 1.
HmRising == [k \in 1..30 |-> HmCandle(k, 100 + k)]

HmDataSet ==
    {NullData, OtherData} \cup
    UNION {{ArrayOf([k \in 1..n |-> HmCandle(k, cs[k])]) :
                cs \in [1..n -> HmCloses]} : n \in 0..HmMaxCandles}

HmStart(d, rsiLength, emaLength, wmaLength) ==
    [pc |-> "start", data |-> d, rsiLength |-> rsiLength,
     emaLength |-> emaLength, wmaLength |-> wmaLength,
     rsiValues |-> <<>>, emaValues |-> <<>>, wmaValues |-> <<>>,
     rsiLine |-> <<>>, emaLine |-> <<>>, wmaLine |-> <<>>,
     averages |-> <<>>, guarded |-> FALSE]

InitHM ==
    /\ hm \in {HmStart(d, r, e, w) : d \in HmDataSet, r \in 1..HmMaxLength,
                    e \in 1..HmMaxLength, w \in 1..HmMaxLength}
               \cup {HmStart(ArrayOf(HmRising), 9, 3, 21)}
    /\ OnlyHM

\* Lines 18-20: too little data returns three empty arrays.
HMReturnEmpty ==
    /\ hm.pc = "start"
    /\ InsufficientData(hm.data, hm.rsiLength, hm.wmaLength)
    /\ hm' = [hm EXCEPT !.pc = "done", !.guarded = TRUE]
    /\ UNCHANGED NotHM

\* Lines 23-27: step 1, and the return when there is no RSI value.
HMCalculateRSI ==
    /\ hm.pc = "start"
    /\ ~InsufficientData(hm.data, hm.rsiLength, hm.wmaLength)
    /\ LET rsiValues == CalculateRSIValues(hm.data.items, hm.rsiLength)
       IN  hm' = [hm EXCEPT !.rsiValues = rsiValues,
                            !.averages = Averages(hm.data.items, hm.rsiLength),
                            !.pc = IF Len(rsiValues) = 0 THEN "done" ELSE "ema"]
    /\ UNCHANGED NotHM

\* Line 30: step 2.
HMCalculateEMA ==
    /\ hm.pc = "ema"
    /\ hm' = [hm EXCEPT !.pc = "wma",
                        !.emaValues =
                            CalculateEMAOfValues(
                                [j \in 1..Len(hm.rsiValues) |-> hm.rsiValues[j].value],
                                hm.emaLength)]
    /\ UNCHANGED NotHM

\* Line 33: step 3.
HMCalculateWMA ==
    /\ hm.pc = "wma"
    /\ hm' = [hm EXCEPT !.pc = "lines",
                        !.wmaValues =
                            CalculateWMAOfValues(
                                [j \in 1..Len(hm.rsiValues) |-> hm.rsiValues[j].value],
                                hm.wmaLength)]
    /\ UNCHANGED NotHM

\* Lines 36-62: the three output lines.
HMReturn ==
    /\ hm.pc = "lines"
    /\ hm' = [hm EXCEPT !.pc = "done",
                        !.rsiLine = [j \in 1..Len(hm.rsiValues) |->
                                        Point(hm.rsiValues[j].time, hm.rsiValues[j].value)],
                        !.emaLine = BuildLine(hm.emaValues, hm.rsiValues,
                                              StartIndex(hm.emaLength), 0),
                        !.wmaLine = BuildLine(hm.wmaValues, hm.rsiValues,
                                              StartIndex(hm.wmaLength), 0)]
    /\ UNCHANGED NotHM

NextHM ==
    \/ HMReturnEmpty
    \/ HMCalculateRSI
    \/ HMCalculateEMA
    \/ HMCalculateWMA
    \/ HMReturn

SpecHM == InitHM /\ [][NextHM]_vars

----------------------------------------------------------------------------
(* Volume indicators: src/unnamed/part_002 *)

\* Bounds of the inputs: the number of candles and the largest period.
VoMaxBars == 3
VoMaxPeriod == 3
VoBaseTime == 7000

\* Lines 43, 87 and 95: candle.volume || 0.
VoVolume(candle) == IF candle.volume.null THEN 0 ELSE candle.volume.n

\* A window that ends one bar early (data[i - 1 - j]).
TrailingSumShifted(d, i, period) ==
    SeqSum([m \in 1..period |-> IF i - m < 0 THEN 0 ELSE VoVolume(d[i - m + 1])])

\* Lines 41-44 and 93-96: the sum of the volumes of data[i - j], j = 0 ..
\* period - 1 (i is 0-based; m = j + 1).
TrailingSum(d, i, period) ==
    SeqSum([m \in 1..period |-> VoVolume(d[i - (m - 1) + 1])])

\* Line 132: Math.round of a fraction (to the nearest integer, halves up).
Round(f) == (2 * f[1] + f[2]) \div (2 * f[2])

\* Line 108: the volume as a multiple of the average, 1 without one.
RelativeVolume(volume, avgVolume) ==
    IF avgVolume[1] > 0 THEN FDiv(FInt(volume), avgVolume) ELSE FInt(1)

\* Lines 113-118: the colour of the bar.
BarColor(isHighVolume, isUp) ==
    IF isHighVolume
    THEN (IF isUp THEN "highVolumeUpColor" ELSE "highVolumeDownColor")
    ELSE (IF isUp THEN "upColor" ELSE "downColor")

\* The inputs: candles that close up or down, with a volume that may be
\* missing.
VoVolumes == {NullNum, Num(0), Num(1), Num(3)}

VoCandle(k, isUp, volume) ==
    [time |-> VoBaseTime + (k - 1) * CandleSeconds,
     open |-> 1, close |-> IF isUp THEN 2 ELSE 0, volume |-> volume]

VoArrays(ups) ==
    UNION {{[k \in 1..n |-> VoCandle(k, u[k], v[k])] :
                u \in [1..n -> ups], v \in [1..n -> VoVolumes]} :
           n \in 0..VoMaxBars}

\* highVolumeThreshold: 1 and the default 1.5.
VoThresholds == {<<1, 1>>, <<3, 2>>}

\* 21 candles with volumes 1..21, for the default period of 20.
VoTwentyOne == [k \in 1..21 |-> VoCandle(k, TRUE, Num(k))]

VoStart(fn, d, period, threshold, showMA) ==
    [pc |-> "start", fn |-> fn, data |-> d, period |-> period,
     highVolumeThreshold |-> threshold, showMA |-> showMA, i |-> 0,
     result |-> <<>>, bars |-> <<>>, ma |-> <<>>, analysis |-> <<>>]

InitVolume ==
    /\ \/ \E d \in {NullData, OtherData} \cup {ArrayOf(a) : a \in VoArrays(BOOLEAN)} :
              vo = VoStart("calculateVolume", d, 1, <<3, 2>>, TRUE)
       \/ \E d \in {NullData, OtherData} \cup {ArrayOf(a) : a \in VoArrays({TRUE})},
                 period \in 1..VoMaxPeriod :
              vo = VoStart("calculateVolumeMA", d, period, <<3, 2>>, TRUE)
       \/ vo = VoStart("calculateVolumeMA", ArrayOf(VoTwentyOne), 20, <<3, 2>>, TRUE)
       \/ \E d \in {NullData, OtherData} \cup {ArrayOf(a) : a \in VoArrays(BOOLEAN)},
                 period \in 1..VoMaxPeriod, t \in VoThresholds, showMA \in BOOLEAN :
              vo = VoStart("calculateEnhancedVolume", d, period, t, showMA)
    /\ OnlyVolume

VoEmptyInput == vo.data.kind # "array" \/ Len(vo.data.items) = 0

\* Lines 11-13: calculateVolume returns [] for no data.
VolumeReturnEmpty ==
    /\ vo.pc = "start" /\ vo.fn = "calculateVolume"
    /\ VoEmptyInput
    /\ vo' = [vo EXCEPT !.pc = "done"]
    /\ UNCHANGED NotVolume

\* Lines 15-19: one bar per candle.
VolumeReturn ==
    /\ vo.pc = "start" /\ vo.fn = "calculateVolume"
    /\ ~VoEmptyInput
    /\ vo' = [vo EXCEPT
                 !.pc = "done",
                 !.result =
                     [k \in 1..Len(vo.data.items) |->
                         [time |-> vo.data.items[k].time,
                          value |-> VoVolume(vo.data.items[k]),
                          color |-> IF vo.data.items[k].close >= vo.data.items[k].open
                                    THEN "upColor" ELSE "downColor"]]]
    /\ UNCHANGED NotVolume

\* Lines 29-31: calculateVolumeMA returns [] for no data.
VolumeMAReturnEmpty ==
    /\ vo.pc = "start" /\ vo.fn = "calculateVolumeMA"
    /\ VoEmptyInput
    /\ vo' = [vo EXCEPT !.pc = "done"]
    /\ UNCHANGED NotVolume

\* Lines 35-50: one iteration of the loop of calculateVolumeMA.
VolumeMAStep ==
    /\ vo.pc \in {"start", "loop"} /\ vo.fn = "calculateVolumeMA"
    /\ ~VoEmptyInput
    /\ vo.i < Len(vo.data.items)
    /\ LET i == vo.i
           candle == vo.data.items[i + 1]
       IN  vo' = [vo EXCEPT
                    !.pc = "loop",
                    !.i = i + 1,
                    !.result =
                        IF i < vo.period - 1 THEN @
                        ELSE Append(@, Point(candle.time,
                                 Frac(TrailingSum(vo.data.items, i, vo.period),
                                      vo.period)))]
    /\ UNCHANGED NotVolume

\* Line 52.
VolumeMAReturn ==
    /\ vo.pc \in {"start", "loop"} /\ vo.fn = "calculateVolumeMA"
    /\ ~VoEmptyInput
    /\ vo.i >= Len(vo.data.items)
    /\ vo' = [vo EXCEPT !.pc = "done"]
    /\ UNCHANGED NotVolume

\* Lines 76-78: calculateEnhancedVolume returns empty arrays for no data.
EnhancedVolumeReturnEmpty ==
    /\ vo.pc = "start" /\ vo.fn = "calculateEnhancedVolume"
    /\ VoEmptyInput
    /\ vo' = [vo EXCEPT !.pc = "done"]
    /\ UNCHANGED NotVolume

\* Lines 85-136: one iteration of the loop of calculateEnhancedVolume.
EnhancedVolumeStep ==
    /\ vo.pc \in {"start", "loop"} /\ vo.fn = "calculateEnhancedVolume"
    /\ ~VoEmptyInput
    /\ vo.i < Len(vo.data.items)
    /\ LET i == vo.i
           candle == vo.data.items[i + 1]
           volume == VoVolume(candle)
           isUp == candle.close >= candle.open
           hasMA == i >= vo.period - 1
           avgVolume == IF hasMA
                        THEN Frac(TrailingSum(vo.data.items, i, vo.period),
                                  vo.period)
                        ELSE FInt(0)
           relativeVolume == RelativeVolume(volume, avgVolume)
           isHighVolume == FLeq(vo.highVolumeThreshold, relativeVolume)
           percentAboveAvg ==
               IF avgVolume[1] > 0
               THEN FMul(FDiv(FSub(FInt(volume), avgVolume), avgVolume),
                         FInt(100))
               ELSE FInt(0)
       IN  vo' = [vo EXCEPT
                    !.pc = "loop",
                    !.i = i + 1,
                    !.ma = IF hasMA /\ vo.showMA
                           THEN Append(@, Point(candle.time, avgVolume))
                           ELSE @,
                    !.bars = Append(@, [time |-> candle.time, value |-> volume,
                                        color |-> BarColor(isHighVolume, isUp)]),
                    !.analysis = Append(@,
                        [time |-> candle.time, volume |-> volume,
                         avgVolume |-> avgVolume,
                         relativeVolume |-> relativeVolume,
                         percentAboveAvg |-> Round(percentAboveAvg),
                         isHighVolume |-> isHighVolume, isUp |-> isUp])]
    /\ UNCHANGED NotVolume

\* Line 138.
EnhancedVolumeReturn ==
    /\ vo.pc \in {"start", "loop"} /\ vo.fn = "calculateEnhancedVolume"
    /\ ~VoEmptyInput
    /\ vo.i >= Len(vo.data.items)
    /\ vo' = [vo EXCEPT !.pc = "done"]
    /\ UNCHANGED NotVolume

NextVolume ==
    \/ VolumeReturnEmpty
    \/ VolumeReturn
    \/ VolumeMAReturnEmpty
    \/ VolumeMAStep
    \/ VolumeMAReturn
    \/ EnhancedVolumeReturnEmpty
    \/ EnhancedVolumeStep
    \/ EnhancedVolumeReturn

SpecVolume == InitVolume /\ [][NextVolume]_vars

----------------------------------------------------------------------------
(* Anchored VWAP: src/src/utils/indicators/vwap.js, calculateAnchoredVWAP *)

\* Bound of the input: the number of candles.
AvMaxBars == 3

\* Array.prototype.findIndex: the 0-based index of the first element that
\* passes the test, -1 when there is none; passes[k] is the result of the
\* test on element k (1-based).
FindIndex(passes) ==
    IF \E k \in 1..Len(passes) : passes[k]
    THEN SetMin({k \in 1..Len(passes) : passes[k]}) - 1
    ELSE -1

\* Lines 282-288 and 293-299: the forEach scans; `best` is maxHigh resp.
\* minLow, which is -Infinity resp. Infinity while anchorIndex is -1.
RECURSIVE ScanHigh(_, _, _, _)
ScanHigh(d, index, best, anchorIndex) ==
    IF index >= Len(d) THEN anchorIndex
    ELSE IF anchorIndex = -1 \/ d[index + 1].high > best
         THEN ScanHigh(d, index + 1, d[index + 1].high, index)
         ELSE ScanHigh(d, index + 1, best, anchorIndex)

RECURSIVE ScanLow(_, _, _, _)
ScanLow(d, index, best, anchorIndex) ==
    IF index >= Len(d) THEN anchorIndex
    ELSE IF anchorIndex = -1 \/ d[index + 1].low < best
         THEN ScanLow(d, index + 1, d[index + 1].low, index)
         ELSE ScanLow(d, index + 1, best, anchorIndex)

\* The time anchor taken as the last candle before anchorTime.
TimeAnchorBefore(d, anchorTime) ==
    LET first == FindIndex([k \in 1..Len(d) |->
                              ~anchorTime.null /\ d[k].time >= anchorTime.n])
    IN  IF first > 0 THEN first - 1 ELSE first

\* Lines 277 and 312: the first candle at or after anchorTime (a comparison
\* with an undefined anchorTime is false).
TimeAnchor(d, anchorTime) ==
    FindIndex([k \in 1..Len(d) |-> ~anchorTime.null /\ d[k].time >= anchorTime.n])

\* Lines 274-317: the anchor index; `today` is the day of new Date().
AnchorIndex(d, anchorTime, anchorType, today) ==
    LET found ==
            CASE anchorType = "time" -> TimeAnchor(d, anchorTime)
              [] anchorType = "high" -> ScanHigh(d, 0, 0, -1)
              [] anchorType = "low" -> ScanLow(d, 0, 0, -1)
              [] anchorType = "session" ->
                     FindIndex([k \in 1..Len(d) |-> LocalDay(d[k].time) = today])
              [] OTHER -> TimeAnchor(d, anchorTime)
    IN  IF found = -1 THEN 0 ELSE found

\* The inputs: bars in ascending time order on the slots of the VWAP model,
\* with two shapes (so that highs and lows tie or differ) and volumes that
\* may be zero or missing.
AvShapes == {[high |-> 3, low |-> 0, close |-> 3],
             [high |-> 2, low |-> 1, close |-> 1]}

AvVolumes == {NullNum, Num(0), Num(1)}

AvCandle(k, shape, volume) ==
    [time |-> VwTime(VwSlots[k]), high |-> shape.high, low |-> shape.low,
     close |-> shape.close, volume |-> volume]

AvArrays ==
    UNION {{[k \in 1..n |-> AvCandle(k, sh[k], v[k])] :
                sh \in [1..n -> AvShapes], v \in [1..n -> AvVolumes]} :
           n \in 0..Min(AvMaxBars, Len(VwSlots))}

\* anchorTime: undefined, before every bar, the time of a bar, between two
\* bars, after every bar.
AvAnchorTimes ==
    {NullNum, Num(0)} \cup
    UNION {{Num(VwTime(VwSlots[k])), Num(VwTime(VwSlots[k]) + 1)} :
               k \in 1..Min(AvMaxBars, Len(VwSlots))}

AvStart(d, anchorTime, anchorType, today) ==
    [pc |-> "start", data |-> d, anchorTime |-> anchorTime,
     anchorType |-> anchorType, today |-> today, anchorIndex |-> -1,
     i |-> 0, cumTPV |-> 0, cumVolume |-> 0, out |-> <<>>]

InitAnchored ==
    /\ \E d \in {NullData, OtherData} \cup {ArrayOf(a) : a \in AvArrays} :
           \/ \E t \in AvAnchorTimes, type \in {"time", "other"} :
                  av = AvStart(d, t, type, 0)
           \/ \E type \in {"high", "low", "session"}, today \in 1..3 :
                  av = AvStart(d, NullNum, type, today)
    /\ OnlyAnchored

AvEmptyInput == av.data.kind # "array" \/ Len(av.data.items) = 0

\* Lines 267-269.
AnchoredReturnEmpty ==
    /\ av.pc = "start"
    /\ AvEmptyInput
    /\ av' = [av EXCEPT !.pc = "done"]
    /\ UNCHANGED NotAnchored

\* Lines 272-317: the anchor index.
AnchoredFindAnchor ==
    /\ av.pc = "start"
    /\ ~AvEmptyInput
    /\ av' = [av EXCEPT !.pc = "loop",
                        !.anchorIndex = AnchorIndex(av.data.items, av.anchorTime,
                                                    av.anchorType, av.today)]
    /\ UNCHANGED NotAnchored

\* Lines 323-348: one iteration of the loop.
AnchoredStep ==
    /\ av.pc = "loop"
    /\ av.i < Len(av.data.items)
    /\ LET i == av.i
           candle == av.data.items[i + 1]
           volume == VolumeOrZero(candle)
           price3 == candle.high + candle.low + candle.close
           cumTPV == av.cumTPV + price3 * volume
           cumVolume == av.cumVolume + volume
       IN  av' =
             IF i < av.anchorIndex
             THEN [av EXCEPT !.i = i + 1,
                             !.out = Append(@, Point(candle.time, NullValue))]
             ELSE IF volume = 0
             THEN [av EXCEPT !.i = i + 1,
                             !.out = Append(@, Point(candle.time,
                                 IF av.cumVolume > 0
                                 THEN Quotient(av.cumTPV, av.cumVolume)
                                 ELSE Frac(price3, 3)))]
             ELSE [av EXCEPT !.i = i + 1,
                             !.cumTPV = cumTPV,
                             !.cumVolume = cumVolume,
                             !.out = Append(@, Point(candle.time,
                                 IF cumVolume > 0
                                 THEN Quotient(cumTPV, cumVolume)
                                 ELSE Frac(price3, 3)))]
    /\ UNCHANGED NotAnchored

\* Line 350.
AnchoredReturn ==
    /\ av.pc = "loop"
    /\ av.i >= Len(av.data.items)
    /\ av' = [av EXCEPT !.pc = "done"]
    /\ UNCHANGED NotAnchored

NextAnchored ==
    \/ AnchoredReturnEmpty
    \/ AnchoredFindAnchor
    \/ AnchoredStep
    \/ AnchoredReturn

SpecAnchored == InitAnchored /\ [][NextAnchored]_vars

----------------------------------------------------------------------------
(* Time utilities and day grouping: src/src/utils/indicators/timeUtils.js *)

\* Lines 12-19: getISTComponents(timestamp): the UTC time of day, as
\* hours * 60 + minutes, and the UTC date (the string YYYY-MM-DD, one per day:
\* modelled by the number of the day).
TimeInMinutes(timestamp) == (timestamp \div 60) % 1440
DateStr(timestamp) == timestamp \div 86400

\* A market-hours test that excludes the close (15:30) itself.
IsMarketHoursOpenEnded(timestamp) ==
    TimeInMinutes(timestamp) >= 9 * 60 + 15 /\ TimeInMinutes(timestamp) < 15 * 60 + 30

\* Lines 26-32: isMarketHours, 09:15 to 15:30 inclusive.
IsMarketHours(timestamp) ==
    TimeInMinutes(timestamp) >= 9 * 60 + 15 /\ TimeInMinutes(timestamp) <= 15 * 60 + 30

\* A window that includes its end.
IsInTimeWindowClosed(timestamp, startHour, startMinute, endHour, endMinute) ==
    /\ TimeInMinutes(timestamp) >= startHour * 60 + startMinute
    /\ TimeInMinutes(timestamp) <= endHour * 60 + endMinute

\* Lines 43-49: isInTimeWindow, start inclusive, end exclusive.
IsInTimeWindow(timestamp, startHour, startMinute, endHour, endMinute) ==
    /\ TimeInMinutes(timestamp) >= startHour * 60 + startMinute
    /\ TimeInMinutes(timestamp) < endHour * 60 + endMinute

\* Lines 58-63: isAfterTime, at or after the target.
IsAfterTime(timestamp, hour, minute) ==
    TimeInMinutes(timestamp) >= hour * 60 + minute

\* The Map of groupCandlesByDay is the sequence of its entries
\* [dateStr, candles] in insertion order.
HasDay(dayMap, dateStr) == \E b \in 1..Len(dayMap) : dayMap[b].dateStr = dateStr

\* The loop body that puts the candle at the front of its bucket.
GroupCandleAtFront(dayMap, candle) ==
    LET dateStr == DateStr(candle.time)
        withDay == IF HasDay(dayMap, dateStr) THEN dayMap
                   ELSE Append(dayMap, [dateStr |-> dateStr, candles |-> <<>>])
    IN  [b \in 1..Len(withDay) |->
            IF withDay[b].dateStr = dateStr
            THEN [withDay[b] EXCEPT !.candles = <<candle>> \o @]
            ELSE withDay[b]]

\* Lines 101-107: the loop body of groupCandlesByDay.
GroupCandle(dayMap, candle) ==
    LET dateStr == DateStr(candle.time)
        withDay == IF HasDay(dayMap, dateStr) THEN dayMap
                   ELSE Append(dayMap, [dateStr |-> dateStr, candles |-> <<>>])
    IN  [b \in 1..Len(withDay) |->
            IF withDay[b].dateStr = dateStr
            THEN [withDay[b] EXCEPT !.candles = Append(@, candle)]
            ELSE withDay[b]]

\* Lines 98-110: groupCandlesByDay(data), from candle i (0-based) on.
RECURSIVE GroupCandlesFrom(_, _, _)
GroupCandlesFrom(data, i, dayMap) ==
    IF i >= Len(data) THEN dayMap
    ELSE GroupCandlesFrom(data, i + 1, GroupCandle(dayMap, data[i + 1]))

GroupCandlesByDay(data) == GroupCandlesFrom(data, 0, <<>>)

----------------------------------------------------------------------------
(* Session pattern detectors: src/unnamed/part_001 *)

\* Bounds of the inputs: the number of candles and the first day.
DtMaxBars == 3
DtBaseDay == 20000

\* Lines 45 and 215: dayCandles.sort((a, b) => a.time - b.time), a stable
\* sort by time: insertion of each candle after the candles that are not
\* later.
RECURSIVE InsertByTime(_, _)
InsertByTime(sorted, candle) ==
    IF sorted = <<>> THEN <<candle>>
    ELSE IF sorted[Len(sorted)].time <= candle.time THEN Append(sorted, candle)
    ELSE Append(InsertByTime(SubSeq(sorted, 1, Len(sorted) - 1), candle),
                sorted[Len(sorted)])

RECURSIVE SortByTime(_)
SortByTime(candles) ==
    IF candles = <<>> THEN <<>>
    ELSE InsertByTime(SortByTime(SubSeq(candles, 1, Len(candles) - 1)),
                      candles[Len(candles)])

\* Lines 48 and 218: the candles of the day in market hours, in time order.
MarketCandles(dayCandles) ==
    SelectSeq(SortByTime(dayCandles), LAMBDA c : IsMarketHours(c.time))

\* Lines 183-185.
IsRedCandle(candle) == candle.close < candle.open

\* Line 223: marketCandles.find(c => isRedCandle(c)), when there is a red
\* candle.
FindRedCandle(candles) ==
    candles[SetMin({k \in 1..Len(candles) : IsRedCandle(candles[k])})]

\* The default options of calculateRangeBreakout (lines 20-28).
RangeOptions(showSignals) ==
    [rangeStartHour |-> 9, rangeStartMinute |-> 30,
     rangeEndHour |-> 10, rangeEndMinute |-> 0, showSignals |-> showSignals]

\* Lines 213-264: one iteration of the loop of calculateFirstCandle over the
\* days; s holds days, allMarkers and allLevels.
FirstCandleDay(s, entry) ==
    LET marketCandles == MarketCandles(entry.candles)
        hasRed == \E k \in 1..Len(marketCandles) : IsRedCandle(marketCandles[k])
        firstRedCandle == FindRedCandle(marketCandles)
        lastCandle == marketCandles[Len(marketCandles)]
        levels == [high |-> firstRedCandle.high, low |-> firstRedCandle.low,
                   date |-> entry.dateStr, startTime |-> firstRedCandle.time,
                   endTime |-> lastCandle.time]
        marker == [time |-> firstRedCandle.time, position |-> "aboveBar",
                   color |-> "highlightColor", shape |-> "arrowDown",
                   text |-> "FRC: 1st Red"]
    IN  IF Len(marketCandles) = 0 THEN s
        ELSE IF ~hasRed THEN s
        ELSE IF firstRedCandle.time = lastCandle.time THEN s
        ELSE [s EXCEPT
                !.days = Append(@, [date |-> entry.dateStr,
                                    firstRedCandle |-> firstRedCandle,
                                    levels |-> levels, markers |-> <<marker>>]),
                !.allMarkers = Append(@, marker),
                !.allLevels = Append(@, levels)]

\* A signal scan that stops at the first signal of either kind.
RECURSIVE ScanSignalsFirstOnly(_, _, _, _, _, _, _)
ScanSignalsFirstOnly(post, k, rangeHigh, rangeLow, breakoutDetected, breakdownDetected, markers) ==
    IF k > Len(post) \/ breakoutDetected \/ breakdownDetected THEN markers
    ELSE LET candle == post[k]
             up == candle.close > rangeHigh
             down == ~up /\ candle.close < rangeLow
         IN  ScanSignalsFirstOnly(post, k + 1, rangeHigh, rangeLow, up, down,
                 IF up THEN Append(markers,
                                [time |-> candle.time, position |-> "aboveBar",
                                 color |-> "highColor", shape |-> "arrowUp",
                                 text |-> "RB: Breakout"])
                 ELSE IF down THEN Append(markers,
                                [time |-> candle.time, position |-> "belowBar",
                                 color |-> "lowColor", shape |-> "arrowDown",
                                 text |-> "RB: Breakdown"])
                 ELSE markers)

\* Lines 106-136: the scan of the post-range candles from candle k (1-based)
\* on, with the two flags.
RECURSIVE ScanSignals(_, _, _, _, _, _, _)
ScanSignals(post, k, rangeHigh, rangeLow, breakoutDetected, breakdownDetected, markers) ==
    IF k > Len(post) \/ (breakoutDetected /\ breakdownDetected) THEN markers
    ELSE LET candle == post[k]
             up == ~breakoutDetected /\ candle.close > rangeHigh
             down == ~breakdownDetected /\ candle.close < rangeLow
             withUp == IF up
                       THEN Append(markers,
                                [time |-> candle.time, position |-> "aboveBar",
                                 color |-> "highColor", shape |-> "arrowUp",
                                 text |-> "RB: Breakout"])
                       ELSE markers
             withDown == IF down
                         THEN Append(withUp,
                                [time |-> candle.time, position |-> "belowBar",
                                 color |-> "lowColor", shape |-> "arrowDown",
                                 text |-> "RB: Breakdown"])
                         ELSE withUp
         IN  ScanSignals(post, k + 1, rangeHigh, rangeLow,
                         breakoutDetected \/ up, breakdownDetected \/ down,
                         withDown)

\* The iteration without the test of line 76: a day whose range ends on its
\* last candle is not skipped.
RangeBreakoutDayZeroLength(s, entry, o, size) ==
    LET marketCandles == MarketCandles(entry.candles)
        rangeCandles ==
            SelectSeq(marketCandles,
                      LAMBDA c : IsInTimeWindow(c.time, o.rangeStartHour,
                                     o.rangeStartMinute, o.rangeEndHour,
                                     o.rangeEndMinute))
        rangeHigh == SetMax({rangeCandles[k].high : k \in 1..Len(rangeCandles)})
        rangeLow == SetMin({rangeCandles[k].low : k \in 1..Len(rangeCandles)})
        postRangeCandles ==
            SelectSeq(marketCandles,
                      LAMBDA c : IsAfterTime(c.time, o.rangeEndHour, o.rangeEndMinute))
        rangeEndCandle == postRangeCandles[1]
        lastCandle == marketCandles[Len(marketCandles)]
        levels == [high |-> rangeHigh, low |-> rangeLow, date |-> entry.dateStr,
                   startTime |-> rangeEndCandle.time, endTime |-> lastCandle.time]
        gap == IF size > 1
               THEN <<[time |-> lastCandle.time + 1, value |-> NullNum]>>
               ELSE <<>>
    IN  IF Len(marketCandles) = 0 THEN s
        ELSE IF Len(rangeCandles) = 0 THEN s
        ELSE IF Len(postRangeCandles) = 0 THEN s
        ELSE [s EXCEPT
                !.allLevels = Append(@, levels),
                !.highLines = @ \o <<[time |-> rangeEndCandle.time,
                                      value |-> Num(rangeHigh)],
                                     [time |-> lastCandle.time,
                                      value |-> Num(rangeHigh)]>> \o gap,
                !.lowLines = @ \o <<[time |-> rangeEndCandle.time,
                                     value |-> Num(rangeLow)],
                                    [time |-> lastCandle.time,
                                     value |-> Num(rangeLow)]>> \o gap,
                !.markers =
                    IF o.showSignals
                    THEN ScanSignals(postRangeCandles, 1, rangeHigh, rangeLow,
                                     FALSE, FALSE, @)
                    ELSE @]

\* Lines 43-137: one iteration of the loop of calculateRangeBreakout over
\* the days; s holds highLines, lowLines, markers and allLevels, o the
\* options, size is dayMap.size.
RangeBreakoutDay(s, entry, o, size) ==
    LET marketCandles == MarketCandles(entry.candles)
        rangeCandles ==
            SelectSeq(marketCandles,
                      LAMBDA c : IsInTimeWindow(c.time, o.rangeStartHour,
                                     o.rangeStartMinute, o.rangeEndHour,
                                     o.rangeEndMinute))
        rangeHigh == SetMax({rangeCandles[k].high : k \in 1..Len(rangeCandles)})
        rangeLow == SetMin({rangeCandles[k].low : k \in 1..Len(rangeCandles)})
        postRangeCandles ==
            SelectSeq(marketCandles,
                      LAMBDA c : IsAfterTime(c.time, o.rangeEndHour, o.rangeEndMinute))
        rangeEndCandle == postRangeCandles[1]
        lastCandle == marketCandles[Len(marketCandles)]
        levels == [high |-> rangeHigh, low |-> rangeLow, date |-> entry.dateStr,
                   startTime |-> rangeEndCandle.time, endTime |-> lastCandle.time]
        gap == IF size > 1
               THEN <<[time |-> lastCandle.time + 1, value |-> NullNum]>>
               ELSE <<>>
    IN  IF Len(marketCandles) = 0 THEN s
        ELSE IF Len(rangeCandles) = 0 THEN s
        ELSE IF Len(postRangeCandles) = 0 THEN s
        ELSE IF rangeEndCandle.time = lastCandle.time THEN s
        ELSE [s EXCEPT
                !.allLevels = Append(@, levels),
                !.highLines = @ \o <<[time |-> rangeEndCandle.time,
                                      value |-> Num(rangeHigh)],
                                     [time |-> lastCandle.time,
                                      value |-> Num(rangeHigh)]>> \o gap,
                !.lowLines = @ \o <<[time |-> rangeEndCandle.time,
                                     value |-> Num(rangeLow)],
                                    [time |-> lastCandle.time,
                                     value |-> Num(rangeLow)]>> \o gap,
                !.markers =
                    IF o.showSignals
                    THEN ScanSignals(postRangeCandles, 1, rangeHigh, rangeLow,
                                     FALSE, FALSE, @)
                    ELSE @]

\* The inputs: candles on the slots of two days (before the open, in the
\* range window, at the end of the window, at the close, after the close), of
\* three shapes: red inside, green above, red below.
DtSlots ==
    {<<DtBaseDay, 9 * 60>>, <<DtBaseDay, 9 * 60 + 30>>, <<DtBaseDay, 9 * 60 + 45>>,
     <<DtBaseDay, 10 * 60>>, <<DtBaseDay, 15 * 60 + 30>>, <<DtBaseDay, 15 * 60 + 35>>,
     <<DtBaseDay + 1, 9 * 60 + 30>>, <<DtBaseDay + 1, 10 * 60>>,
     <<DtBaseDay + 1, 15 * 60 + 30>>}

DtTime(slot) == (slot[1] * 1440 + slot[2]) * 60

DtShapes == {[open |-> 3, close |-> 2, high |-> 3, low |-> 2],
             [open |-> 3, close |-> 5, high |-> 5, low |-> 3],
             [open |-> 2, close |-> 0, high |-> 2, low |-> 0]}

DtCandle(time, shape) ==
    [time |-> time, open |-> shape.open, close |-> shape.close,
     high |-> shape.high, low |-> shape.low]

\* The candles on a set of times, in ascending or in descending time order.
RECURSIVE DtAscending(_)
DtAscending(times) ==
    IF times = {} THEN <<>>
    ELSE <<SetMin(times)>> \o DtAscending(times \ {SetMin(times)})

DtReverse(seq) == [k \in 1..Len(seq) |-> seq[Len(seq) + 1 - k]]

DtArraysOn(times) ==
    LET asc == DtAscending(times)
    IN  UNION {{[k \in 1..Len(asc) |-> DtCandle(asc[k], sh[k])],
                DtReverse([k \in 1..Len(asc) |-> DtCandle(asc[k], sh[k])])} :
               sh \in [1..Len(asc) -> DtShapes]}

DtArrays ==
    UNION {DtArraysOn({DtTime(sl) : sl \in S}) :
               S \in {T \in SUBSET DtSlots : Cardinality(T) <= DtMaxBars}}

\* Two full days: a window candle, the end-of-window candle and the closing
\* candle on each.
DtTwoDays ==
    DtArraysOn({DtTime(<<day, minute>>) :
                   day \in {DtBaseDay, DtBaseDay + 1},
                   minute \in {9 * 60 + 30, 10 * 60, 15 * 60 + 30}})

DtStart(fn, d, showSignals) ==
    [pc |-> "start", fn |-> fn, data |-> d, o |-> RangeOptions(showSignals),
     dayMap |-> <<>>, day |-> 0,
     days |-> <<>>, allMarkers |-> <<>>, allLevels |-> <<>>,
     markers |-> <<>>, highLines |-> <<>>, lowLines |-> <<>>,
     filteredHighLines |-> <<>>, filteredLowLines |-> <<>>,
     currentDayLevels |-> <<>>]

InitDetectors ==
    /\ \/ \E d \in {NullData, OtherData}, showSignals \in BOOLEAN :
              \/ dt = DtStart("calculateFirstCandle", d, TRUE)
              \/ dt = DtStart("calculateRangeBreakout", d, showSignals)
       \/ \E a \in DtArrays :
              dt = DtStart("calculateFirstCandle", ArrayOf(a), TRUE)
       \/ \E a \in DtArrays, showSignals \in BOOLEAN :
              dt = DtStart("calculateRangeBreakout", ArrayOf(a), showSignals)
       \/ \E a \in DtTwoDays, showSignals \in BOOLEAN :
              dt = DtStart("calculateRangeBreakout", ArrayOf(a), showSignals)
    /\ OnlyDetectors

DtEmptyInput == dt.data.kind # "array" \/ Len(dt.data.items) = 0

\* Lines 30-32 and 201-203: nothing to do without data.
DetectorReturnEmpty ==
    /\ dt.pc = "start"
    /\ DtEmptyInput
    /\ dt' = [dt EXCEPT !.pc = "done"]
    /\ UNCHANGED NotDetectors

\* Lines 35 and 206: dayMap = groupCandlesByDay(data).
DetectorGroupByDay ==
    /\ dt.pc = "start"
    /\ ~DtEmptyInput
    /\ dt' = [dt EXCEPT !.pc = "days",
                        !.dayMap = GroupCandlesByDay(dt.data.items)]
    /\ UNCHANGED NotDetectors

\* Lines 213-264: calculateFirstCandle handles the next day.
FirstCandleDayStep ==
    /\ dt.pc = "days" /\ dt.fn = "calculateFirstCandle"
    /\ dt.day < Len(dt.dayMap)
    /\ dt' = [FirstCandleDay(dt, dt.dayMap[dt.day + 1]) EXCEPT !.day = dt.day + 1]
    /\ UNCHANGED NotDetectors

\* Lines 267-274.
FirstCandleReturn ==
    /\ dt.pc = "days" /\ dt.fn = "calculateFirstCandle"
    /\ dt.day >= Len(dt.dayMap)
    /\ dt' = [dt EXCEPT !.pc = "done",
                        !.currentDayLevels =
                            IF Len(dt.days) > 0
                            THEN <<dt.days[Len(dt.days)].levels>> ELSE <<>>]
    /\ UNCHANGED NotDetectors

\* Lines 43-138: calculateRangeBreakout handles the next day.
RangeBreakoutDayStep ==
    /\ dt.pc = "days" /\ dt.fn = "calculateRangeBreakout"
    /\ dt.day < Len(dt.dayMap)
    /\ dt' = [RangeBreakoutDay(dt, dt.dayMap[dt.day + 1], dt.o, Len(dt.dayMap))
                  EXCEPT !.day = dt.day + 1]
    /\ UNCHANGED NotDetectors

\* Lines 141-149: the lines without their null points.
RangeBreakoutReturn ==
    /\ dt.pc = "days" /\ dt.fn = "calculateRangeBreakout"
    /\ dt.day >= Len(dt.dayMap)
    /\ dt' = [dt EXCEPT !.pc = "done",
                        !.filteredHighLines =
                            SelectSeq(dt.highLines, LAMBDA pt : ~pt.value.null),
                        !.filteredLowLines =
                            SelectSeq(dt.lowLines, LAMBDA pt : ~pt.value.null)]
    /\ UNCHANGED NotDetectors

NextDetectors ==
    \/ DetectorReturnEmpty
    \/ DetectorGroupByDay
    \/ FirstCandleDayStep
    \/ FirstCandleReturn
    \/ RangeBreakoutDayStep
    \/ RangeBreakoutReturn

SpecDetectors == InitDetectors /\ [][NextDetectors]_vars

----------------------------------------------------------------------------
(* Day grouping on its own: groupCandlesByDay *)

\* Bounds of the inputs of groupCandlesByDay: the number of candles and the
\* first day.
GcMaxCandles == 4
GcBaseDay == 20000

\* The times of the candles: two times of day on each of two days.
GcTimes ==
    {(day * 1440 + minute) * 60 :
        day \in {GcBaseDay, GcBaseDay + 1}, minute \in {9 * 60 + 15, 15 * 60 + 30}}

\* The candles of an input in any order, times repeated or not; id is the
\* identity of the candle object (its position in the input).
GcArrays ==
    UNION {{[k \in 1..n |-> [time |-> t[k], id |-> k]] : t \in [1..n -> GcTimes]} :
           n \in 0..GcMaxCandles}

InitGrouping ==
    /\ gc \in {[pc |-> "loop", data |-> a, i |-> 0, dayMap |-> <<>>] : a \in GcArrays}
    /\ OnlyGrouping

\* Lines 101-107: one iteration of the loop.
GroupCandlesStep ==
    /\ gc.pc = "loop"
    /\ gc.i < Len(gc.data)
    /\ gc' = [gc EXCEPT !.i = gc.i + 1,
                        !.dayMap = GroupCandle(gc.dayMap, gc.data[gc.i + 1])]
    /\ UNCHANGED NotGrouping

\* Line 109.
GroupCandlesReturn ==
    /\ gc.pc = "loop"
    /\ gc.i >= Len(gc.data)
    /\ gc' = [gc EXCEPT !.pc = "done"]
    /\ UNCHANGED NotGrouping

NextGrouping ==
    \/ GroupCandlesStep
    \/ GroupCandlesReturn

SpecGrouping == InitGrouping /\ [][NextGrouping]_vars

----------------------------------------------------------------------------
(* useIndicatorWorker: src/unnamed/part_013, lines 143-293 *)

\* The number of sendRequest calls of one hook instance.
WkMaxRequests == 3
WkIds == 1..WkMaxRequests

\* Line 225: the timeout of a request without options.timeout.
DefaultTimeout == 30000

\* The values of options.timeout: absent (0, which is falsy as well) or 5 s.
WkTimeouts == {0, 5000}

\* Line 225: options.timeout || 30000.
TimeoutOf(t) == IF t = 0 THEN DefaultTimeout ELSE t

\* A promise that sendRequest has not created yet.
WkUnsent == [state |-> "unsent", by |-> "none", calls |-> 0,
             timer |-> "none", option |-> 0, timeout |-> 0]

\* The calculation responses a worker can post.
WkMessages == [id : WkIds, success : BOOLEAN]

\* resolve or reject called on the promise of request r: the first call
\* settles it, a later one changes nothing.
Settle(r, how, by) ==
    [r EXCEPT !.calls = @ + 1,
              !.state = IF @ = "pending" THEN how ELSE @,
              !.by = IF r.state = "pending" THEN by ELSE @]

\* Lines 234-244: resolve and reject as stored in the map, which clear the
\* timer first.
SettleStored(r, how, by) ==
    Settle([r EXCEPT !.timer = IF @ = "armed" THEN "cleared" ELSE @], how, by)

\* Lines 149-156 and 193-195: the effect has run; the Worker was created, or
\* the constructor threw and workerRef.current stays null.  A worker posts
\* its 'ready' message when it has loaded.
InitWorker ==
    /\ \E created \in BOOLEAN :
          wk = [pc |-> "mounted", workerRef |-> created, isReady |-> FALSE,
                readyInFlight |-> created,
                pendingRequests |-> {}, nextId |-> 1,
                requests |-> [id \in WkIds |-> WkUnsent],
                posted |-> {}, messages |-> {}]
    /\ OnlyWorker

\* Lines 212-217: sendRequest without a worker resolves with null.
SendRequestNoWorker ==
    /\ wk.pc \in {"mounted", "unmounted"}
    /\ wk.nextId \in WkIds
    /\ ~wk.workerRef
    /\ wk' = [wk EXCEPT !.nextId = @ + 1,
                        !.requests[wk.nextId] =
                            Settle([WkUnsent EXCEPT !.state = "pending"],
                                   "resolved", "unavailable")]
    /\ UNCHANGED NotWorker

\* Lines 219-247: sendRequest with a worker stores the request, arms the
\* timer and posts the message.
SendRequest ==
    /\ wk.pc = "mounted"
    /\ wk.nextId \in WkIds
    /\ wk.workerRef
    /\ \E t \in WkTimeouts :
          wk' = [wk EXCEPT !.nextId = @ + 1,
                           !.pendingRequests = @ \cup {wk.nextId},
                           !.requests[wk.nextId] =
                               [state |-> "pending", by |-> "none", calls |-> 0,
                                timer |-> "armed", option |-> t,
                                timeout |-> TimeoutOf(t)],
                           !.posted = @ \cup {wk.nextId}]
    /\ UNCHANGED NotWorker

\* The worker answers a request it was posted, with success or with an
\* error; the answer is a message in flight to the page.
WorkerRespond ==
    /\ wk.pc = "mounted" /\ wk.workerRef
    /\ \E id \in wk.posted, success \in BOOLEAN :
          wk' = [wk EXCEPT !.posted = @ \ {id},
                           !.messages = @ \cup {[id |-> id, success |-> success]}]
    /\ UNCHANGED NotWorker

\* Lines 158-166: onmessage with the 'ready' message.
OnReady ==
    /\ wk.pc = "mounted" /\ wk.workerRef
    /\ wk.readyInFlight
    /\ wk' = [wk EXCEPT !.readyInFlight = FALSE, !.isReady = TRUE]
    /\ UNCHANGED NotWorker

\* Lines 158-179: onmessage with a calculation response.
OnMessage(m) ==
    /\ wk.pc = "mounted" /\ wk.workerRef
    /\ m \in wk.messages
    /\ wk' = IF m.id \in wk.pendingRequests
             THEN [wk EXCEPT !.messages = @ \ {m},
                             !.pendingRequests = @ \ {m.id},
                             !.requests[m.id] =
                                 SettleStored(@, IF m.success THEN "resolved"
                                                 ELSE "rejected", "response")]
             ELSE [wk EXCEPT !.messages = @ \ {m}]
    /\ UNCHANGED NotWorker

\* Lines 182-189: onerror rejects every pending request and clears the map.
OnError ==
    /\ wk.pc = "mounted" /\ wk.workerRef
    /\ wk' = [wk EXCEPT !.requests =
                            [id \in WkIds |->
                                IF id \in wk.pendingRequests
                                THEN SettleStored(wk.requests[id], "rejected", "error")
                                ELSE wk.requests[id]],
                        !.pendingRequests = {}]
    /\ UNCHANGED NotWorker

\* Lines 226-231: the timer of request id fires.
RequestTimeout(id) ==
    /\ wk.pc \in {"mounted", "unmounted"}
    /\ wk.requests[id].timer = "armed"
    /\ wk' = IF id \in wk.pendingRequests
             THEN [wk EXCEPT !.pendingRequests = @ \ {id},
                             !.requests[id] =
                                 Settle([@ EXCEPT !.timer = "fired"],
                                        "rejected", "timeout")]
             ELSE [wk EXCEPT !.requests[id].timer = "fired"]
    /\ UNCHANGED NotWorker

\* Lines 280-286: terminate() with a worker; the terminated worker delivers
\* nothing more.
Terminate ==
    /\ wk.pc = "mounted" /\ wk.workerRef
    /\ wk' = [wk EXCEPT !.workerRef = FALSE, !.isReady = FALSE,
                        !.readyInFlight = FALSE,
                        !.posted = {}, !.messages = {}]
    /\ UNCHANGED NotWorker

\* Lines 198-204: the cleanup of the effect at unmount.
UnmountCleanup ==
    /\ wk.pc = "mounted"
    /\ wk' = [wk EXCEPT !.pc = "unmounted", !.workerRef = FALSE,
                        !.readyInFlight = FALSE,
                        !.posted = {}, !.messages = {},
                        !.pendingRequests = {}]
    /\ UNCHANGED NotWorker

NextWorker ==
    \/ SendRequestNoWorker
    \/ SendRequest
    \/ WorkerRespond
    \/ OnReady
    \/ \E m \in WkMessages : OnMessage(m)
    \/ OnError
    \/ \E id \in WkIds : RequestTimeout(id)
    \/ Terminate
    \/ UnmountCleanup

SpecWorker == InitWorker /\ [][NextWorker]_vars

\* The event loop runs every timer that is armed and delivers every message
\* of a live worker.
WorkerFairness ==
    /\ \A id \in WkIds : WF_vars(RequestTimeout(id))
    /\ WF_vars(\E m \in WkMessages : OnMessage(m))

SpecWorkerFair == SpecWorker /\ WorkerFairness

----------------------------------------------------------------------------
(* The engines together *)

Init == InitRenko \/ InitBrickSize \/ InitVWAP \/ InitHM \/ InitVolume
            \/ InitAnchored \/ InitGrouping \/ InitDetectors \/ InitWorker

Next == NextRenko \/ NextBrickSize \/ NextVWAP \/ NextHM \/ NextVolume
            \/ NextAnchored \/ NextGrouping \/ NextDetectors \/ NextWorker

Spec == Init /\ [][Next]_vars

----------------------------------------------------------------------------
(* The engines called without an array *)

\* Every engine called with null or with a value that is not an array, with
\* the options of its own model.
InitMalformed ==
    \E d \in {NullData, OtherData} :
        \/ rk \in {RkStart(d, b) : b \in RkBrickSizes} /\ OnlyRenko
        \/ vw \in {VwStart(d, o) : o \in VwOptions} /\ OnlyVWAP
        \/ hm \in {HmStart(d, r, e, w) : r \in 1..HmMaxLength,
                        e \in 1..HmMaxLength, w \in 1..HmMaxLength} /\ OnlyHM
        \/ vo \in {VoStart(fn, d, period, t, showMA) :
                        fn \in {"calculateVolume", "calculateVolumeMA",
                                "calculateEnhancedVolume"},
                        period \in 1..VoMaxPeriod, t \in VoThresholds,
                        showMA \in BOOLEAN} /\ OnlyVolume
        \/ av \in {AvStart(d, t, type, 0) :
                        t \in AvAnchorTimes,
                        type \in {"time", "high", "low", "session", "other"}}
              /\ OnlyAnchored
        \/ dt \in {DtStart(fn, d, showSignals) :
                        fn \in {"calculateFirstCandle", "calculateRangeBreakout"},
                        showSignals \in BOOLEAN} /\ OnlyDetectors

\* What an engine does with such a value: the actions of its entry guard.
NextMalformed ==
    \/ RenkoReturnEmpty
    \/ RenkoReturnNonArray
    \/ RenkoThrow
    \/ VWAPReturnEmpty
    \/ HMReturnEmpty
    \/ VolumeReturnEmpty
    \/ VolumeMAReturnEmpty
    \/ EnhancedVolumeReturnEmpty
    \/ AnchoredReturnEmpty
    \/ DetectorReturnEmpty

SpecMalformed == InitMalformed /\ [][NextMalformed]_vars

\* The engine that was called, and whether its call has ended.
MfEngines == {rk, vw, hm, vo, av, dt}
MfCalled(e) == e # Idle /\ e.data.kind # "array"
MfEnded(e) == MfCalled(e) /\ e.pc \in {"done", "thrown"}

\* C21 (as stated): every engine called with null or with a value that is
\* not an array does not throw and returns its empty-result shape: [] for
\* calculateRenko, the VWAP variants, calculateVolume and calculateVolumeMA,
\* empty arrays in every field for the others.
C21_MalformedInputReturnsEmpty ==
    /\ \A e \in MfEngines : MfCalled(e) => e.pc # "thrown"
    /\ MfEnded(rk) => (~rk.fallback /\ rk.result = <<>>)
    /\ MfEnded(vw) => (vw.result = <<>> /\ vw.out = <<>> /\ vw.bands = <<>>)
    /\ MfEnded(hm) => (hm.rsiLine = <<>> /\ hm.emaLine = <<>> /\ hm.wmaLine = <<>>)
    /\ MfEnded(vo) => (vo.result = <<>> /\ vo.bars = <<>> /\ vo.ma = <<>>
                          /\ vo.analysis = <<>>)
    /\ MfEnded(av) => av.out = <<>>
    /\ MfEnded(dt) => (dt.days = <<>> /\ dt.allMarkers = <<>> /\ dt.allLevels = <<>>
                          /\ dt.markers = <<>> /\ dt.highLines = <<>>
                          /\ dt.lowLines = <<>> /\ dt.filteredHighLines = <<>>
                          /\ dt.filteredLowLines = <<>>
                          /\ dt.currentDayLevels = <<>>)

\* The same for every engine but calculateRenko, whose guard (!data ||
\* data.length === 0) lets a truthy value that is not an array through.
MfAllButRenkoReturnEmpty ==
    rk = Idle => C21_MalformedInputReturnsEmpty

\* calculateRenko called with a truthy value that is not an array has thrown
\* or has returned the value itself.
MfRenkoDiverges ==
    (MfEnded(rk) /\ rk.data.kind = "other") => (rk.pc = "thrown" \/ rk.fallback)

----------------------------------------------------------------------------
(* The line series of the engines *)

\* Bound of the inputs of the engines that return line series: the number of
\* candles of the enumerated inputs (one more for the range breakout, two
\* more for Hilenga-Milenga, which need them to return a line).
TsMaxBars == 2

TsAscending(a) == \A k \in 1..(Len(a) - 1) : a[k].time < a[k + 1].time

\* Four bars, one on each slot, with every combination of volumes.
TsFourBars ==
    {[k \in 1..Len(VwSlots) |->
         VwCandle(VwSlots[k], [open |-> 0, high |-> 3, low |-> 0, close |-> 3],
                  vols[k])] : vols \in [1..Len(VwSlots) -> VwVolumes]}

TsVwData ==
    {NullData} \cup {ArrayOf(a) : a \in {x \in VwArrays : Len(x) <= TsMaxBars}}
               \cup {ArrayOf(a) : a \in TsFourBars}

TsAvData ==
    {NullData} \cup {ArrayOf(a) : a \in {x \in AvArrays : Len(x) <= TsMaxBars}}
               \cup {ArrayOf([k \in 1..Len(a) |->
                                 AvCandle(k, [high |-> 3, low |-> 0, close |-> 3],
                                          a[k].volume)]) : a \in TsFourBars}

TsVoData ==
    {NullData} \cup {ArrayOf(a) : a \in {x \in VoArrays({TRUE}) : Len(x) <= TsMaxBars}}

TsHmData ==
    {d \in HmDataSet : Len(d.items) <= TsMaxBars + 2}

TsDtData ==
    {NullData}
    \cup {ArrayOf(a) : a \in {x \in DtArrays : Len(x) <= TsMaxBars + 1 /\ TsAscending(x)}}
    \cup {ArrayOf(a) : a \in {x \in DtTwoDays : TsAscending(x)}}

\* The engines that return line series, called with candles in strictly
\* increasing time order (or with no data).
InitSeries ==
    \/ /\ \E d \in TsVwData, o \in VwOptions : vw = VwStart(d, o)
       /\ OnlyVWAP
    \/ /\ \E d \in TsAvData :
              \/ \E t \in AvAnchorTimes, type \in {"time", "other"} :
                     av = AvStart(d, t, type, 0)
              \/ \E type \in {"high", "low", "session"}, today \in 1..3 :
                     av = AvStart(d, NullNum, type, today)
       /\ OnlyAnchored
    \/ /\ \/ \E d \in TsVoData, period \in 1..VoMaxPeriod :
                 vo = VoStart("calculateVolumeMA", d, period, <<3, 2>>, TRUE)
          \/ vo = VoStart("calculateVolumeMA", ArrayOf(VoTwentyOne), 20, <<3, 2>>, TRUE)
       /\ OnlyVolume
    \/ /\ \/ \E d \in TsHmData, r \in 1..2, e \in 1..2, w \in 1..2 :
                 hm = HmStart(d, r, e, w)
          \/ hm = HmStart(ArrayOf(HmRising), 9, 3, 21)
       /\ OnlyHM
    \/ /\ \E d \in TsDtData, showSignals \in BOOLEAN :
              dt = DtStart("calculateRangeBreakout", d, showSignals)
       /\ OnlyDetectors

NextSeries ==
    \/ VWAPReturnEmpty
    \/ VWAPStep
    \/ BuyVWAPStep
    \/ SellVWAPStep
    \/ VWAPBandsStep
    \/ VWAPReturn
    \/ AnchoredReturnEmpty
    \/ AnchoredFindAnchor
    \/ AnchoredStep
    \/ AnchoredReturn
    \/ VolumeMAReturnEmpty
    \/ VolumeMAStep
    \/ VolumeMAReturn
    \/ HMReturnEmpty
    \/ HMCalculateRSI
    \/ HMCalculateEMA
    \/ HMCalculateWMA
    \/ HMReturn
    \/ DetectorReturnEmpty
    \/ DetectorGroupByDay
    \/ RangeBreakoutDayStep
    \/ RangeBreakoutReturn

SpecSeries == InitSeries /\ [][NextSeries]_vars

TsNonDecreasing(line) == \A k \in 1..(Len(line) - 1) : line[k].time <= line[k + 1].time
TsNoDuplicate(line) ==
    \A j, k \in 1..Len(line) : j # k => line[j].time # line[k].time
TsOrdered(line) == TsNonDecreasing(line) /\ TsNoDuplicate(line)

\* The engine that runs was called with an array in strictly increasing time
\* order.
TsInput(e) == e # Idle /\ e.data.kind = "array" /\ TsAscending(e.data.items)

\* C22: for an input in strictly increasing time order, every line series
\* of calculateVWAP, calculateBuyVWAP, calculateSellVWAP, calculateVWAPBands
\* (the vwap line and the bands), calculateAnchoredVWAP, calculateVolumeMA,
\* calculateHilengaMilenga (rsiLine, emaLine, wmaLine) and
\* calculateRangeBreakout (highLines, lowLines as returned) is non-decreasing
\* in time and has no duplicate timestamp, while it is built and when it is
\* returned.
C22_SeriesTimesIncrease ==
    /\ TsInput(vw) => (TsOrdered(vw.out) /\ TsOrdered(vw.bands) /\ TsOrdered(vw.result))
    /\ TsInput(av) => TsOrdered(av.out)
    /\ (TsInput(vo) /\ vo.fn = "calculateVolumeMA") => TsOrdered(vo.result)
    /\ TsInput(hm) => (TsOrdered(hm.rsiValues) /\ TsOrdered(hm.rsiLine)
                         /\ TsOrdered(hm.emaLine) /\ TsOrdered(hm.wmaLine))
    /\ (TsInput(dt) /\ dt.fn = "calculateRangeBreakout") =>
           (TsOrdered(dt.filteredHighLines) /\ TsOrdered(dt.filteredLowLines))

\* C22 witness: calculateRangeBreakout returned the lines of two days (four
\* points each).
C22_Witness ==
    /\ TsInput(dt) /\ dt.fn = "calculateRangeBreakout" /\ dt.pc = "done"
    /\ Len(dt.filteredHighLines) = 4 /\ Len(dt.filteredLowLines) = 4

\* Series of several points are returned by the other engines too.
TsWitnessVWAP ==
    /\ TsInput(vw) /\ vw.pc = "done" /\ Len(vw.result) = 4
    /\ vw.o.fn = "calculateBuyVWAP" /\ \E k \in 1..4 : VolumeOrZero(vw.data.items[k]) = 0
TsWitnessBands == TsInput(vw) /\ vw.pc = "done" /\ Len(vw.bands) = 4
TsWitnessAnchored == TsInput(av) /\ av.pc = "done" /\ Len(av.out) = 4
TsWitnessVolumeMA == TsInput(vo) /\ vo.pc = "done" /\ Len(vo.result) >= 2
TsWitnessHM ==
    /\ TsInput(hm) /\ hm.pc = "done"
    /\ Len(hm.rsiLine) >= 3 /\ Len(hm.emaLine) >= 2 /\ Len(hm.wmaLine) >= 2

----------------------------------------------------------------------------
(* Degenerate numeric cases *)

\* A value that is a number: neither null nor a quotient by zero.
NcFinite(value) == value[2] > 0
NcFiniteOrNull(value) == value = NullValue \/ NcFinite(value)

\* calculateRenko has sized its bricks itself.
NcAutoSized ==
    /\ rk # Idle /\ rk.pc \in {"loop", "done"}
    /\ rk.data.kind = "array" /\ Len(rk.data.items) > 0
    /\ (rk.brickSize.null \/ rk.brickSize.n = 0)

\* No division by zero in the sizing of the bricks.
NcRenko == NcAutoSized => ~DefaultBrickSizeDividesByZero(rk.data)

\* Every value a VWAP variant has emitted is a number (a quotient by a
\* positive cumulative volume, a price, or a carried value).
NcVWAP ==
    (vw # Idle /\ vw.data.kind = "array") =>
        /\ \A k \in 1..Len(vw.out) : NcFinite(vw.out[k].value)
        /\ \A k \in 1..Len(vw.bands) : NcFinite(vw.bands[k].stdDevSq)

\* The values of calculateVWAP, calculateBuyVWAP and calculateSellVWAP alone.
NcVWAPButBands ==
    (vw # Idle /\ vw.o.fn # "calculateVWAPBands") => NcVWAP

\* calculateVWAPBands emits numbers or null, and null only for bars without
\* volume before the first bar with volume.
NcBands ==
    (vw # Idle /\ vw.data.kind = "array" /\ vw.o.fn = "calculateVWAPBands") =>
        \A k \in 1..Len(vw.out) :
            /\ NcFiniteOrNull(vw.out[k].value)
            /\ vw.out[k].value = NullValue <=>
                   \A j \in 1..k : VolumeOrZero(vw.data.items[j]) = 0

NcAnchored ==
    (av # Idle /\ av.data.kind = "array" /\ av.pc \in {"loop", "done"}) =>
        \A k \in 1..Len(av.out) :
            IF k - 1 < av.anchorIndex THEN av.out[k].value = NullValue
            ELSE NcFinite(av.out[k].value)

\* RS = 100 when avgLoss = 0, and every RSI, EMA and WMA value is a number.
NcHM ==
    (hm # Idle /\ hm.data.kind = "array") =>
        /\ \A k \in 1..Len(hm.rsiValues) :
               /\ NcFinite(hm.rsiValues[k].value)
               /\ hm.averages[k].loss[1] = 0 =>
                      hm.rsiValues[k].value = FSub(FInt(100), FDiv(FInt(100), FInt(101)))
        /\ \A k \in 1..Len(hm.emaValues) : NcFinite(hm.emaValues[k])
        /\ \A k \in 1..Len(hm.wmaValues) : NcFinite(hm.wmaValues[k])

\* relativeVolume = 1 when avgVolume = 0, and every value is a number.
NcVolume ==
    (vo # Idle /\ vo.data.kind = "array") =>
        /\ \A k \in 1..Len(vo.analysis) :
               /\ NcFinite(vo.analysis[k].avgVolume)
               /\ NcFinite(vo.analysis[k].relativeVolume)
               /\ vo.analysis[k].avgVolume[1] = 0 =>
                      vo.analysis[k].relativeVolume = FInt(1)
        /\ \A k \in 1..Len(vo.ma) : NcFinite(vo.ma[k].value)
        /\ vo.fn = "calculateVolumeMA" =>
               \A k \in 1..Len(vo.result) : NcFinite(vo.result[k].value)

\* C23 (as stated): for inputs with non-negative volumes and periods of at
\* least 1, no engine divides by zero and no emitted value is NaN or
\* Infinity: the sizing of the Renko bricks does not divide by zero, RS is
\* 100 when avgLoss is 0, every value of a VWAP variant is a quotient by a
\* positive cumulative volume, a price or a carried value, and
\* relativeVolume is 1 when avgVolume is 0.
C23_NoDivisionByZero ==
    NcRenko /\ NcVWAP /\ NcAnchored /\ NcHM /\ NcVolume

----------------------------------------------------------------------------
(* VWAP family: the claims *)

VwStepped == vw.pc \in {"loop", "done"} /\ vw.data.kind = "array" /\ vw.i >= 1
VwBar(k) == vw.data.items[k]
VwDayOf(k) == LocalDay(VwBar(k).time)
VwMinuteOf(k) == MinutesFromMidnight(VwBar(k).time)
VwIsStandard == vw.o.fn = "calculateVWAP"

\* The session a bar belongs to by its time: the calendar day, or, for
\* calculateVWAP with resetAtMarketOpen, the day whose market open (09:00 for
\* MCX, 09:15 for NSE) precedes it.
VwBarSession(k) ==
    IF VwIsStandard /\ vw.o.resetAtMarketOpen
    THEN IF VwMinuteOf(k) < (IF vw.o.exchange = "MCX" THEN 540 ELSE 555)
         THEN VwDayOf(k) - 1 ELSE VwDayOf(k)
    ELSE VwDayOf(k)

\* The bar takes part in the accumulation: it is not diverted by a
\* zero-volume branch that precedes the session check (calculateVWAPBands
\* checks the session first).
VwCounted(k) ==
    CASE vw.o.fn = "calculateVWAPBands" -> TRUE
      [] VwIsStandard -> vw.o.ignoreVolume \/ VolumeOrZero(VwBar(k)) # 0
      [] OTHER -> VolumeOrZero(VwBar(k)) # 0

VwCountedBefore(i) == {j \in 1..(i - 1) : VwCounted(j)}
VwLastCountedBefore(i) == SetMax(VwCountedBefore(i))

VwOwnPrice(k) == Frac(SourcePrice3(VwBar(k), vw.o.sourceKey), 3)

\* Bar i is the first bar of day 2 of an input made of two consecutive days.
VwFirstBarOfDay2(i) ==
    /\ i >= 2
    /\ VwDayOf(i) = VwDayOf(i - 1) + 1
    /\ VwDayOf(1) = VwDayOf(i - 1)

VwSessionOf(i) ==
    {j \in 1..Len(vw.data.items) :
        vw.o.resetDaily => VwBarSession(j) = VwBarSession(i)}

VwConstantPrice(S) == \A j, k \in S : VwOwnPrice(j) = VwOwnPrice(k)

VwIsSide == vw.o.fn \in {"calculateBuyVWAP", "calculateSellVWAP"}

\* One iteration of calculateBuyVWAP / calculateSellVWAP on a bar whose
\* attributed (buy resp. sell) volume is zero or missing.
VwSideZeroVolumeStep ==
    /\ vw.pc = "loop" /\ vw.data.kind = "array" /\ VwIsSide
    /\ vw'.pc = "loop" /\ vw'.i = vw.i + 1
    /\ (IF vw.o.fn = "calculateBuyVWAP"
        THEN BuyVolume5(vw.data.items[vw.i + 1])
        ELSE SellVolume5(vw.data.items[vw.i + 1])) = 0

\* C16: calculateBuyVWAP / calculateSellVWAP: a bar without attributed volume
\* emits a point repeating the last emitted value when there is one and
\* nothing otherwise, and leaves cumTPV, cumVolume and lastDate unchanged;
\* the output is never longer than the input, its points carry the times of
\* the last bars of the input processed (a suffix), and no value is null.
C16_ZeroSideVolumeRepeatsLastValue ==
    /\ [][VwSideZeroVolumeStep =>
             /\ vw'.cumTPV = vw.cumTPV
             /\ vw'.cumVolume = vw.cumVolume
             /\ vw'.lastSessionKey = vw.lastSessionKey
             /\ vw'.out =
                    IF vw.out = <<>> THEN <<>>
                    ELSE Append(vw.out,
                                Point(vw.data.items[vw.i + 1].time,
                                      vw.out[Len(vw.out)].value))]_vars
    /\ []((VwStepped /\ VwIsSide) =>
             /\ Len(vw.out) <= vw.i
             /\ \A k \in 1..Len(vw.out) :
                    /\ vw.out[k].value # NullValue
                    /\ vw.out[k].time = VwBar(vw.i - Len(vw.out) + k).time)

\* C16 witness: calculateSellVWAP skipped a first bar without sell volume
\* (nothing emitted), accumulated the second, and repeated its value for a
\* third bar without sell volume.
C16_Witness ==
    /\ VwStepped /\ vw.o.fn = "calculateSellVWAP"
    /\ vw.i = 3 /\ vw.skipped
    /\ ~VwCounted(1) /\ VwCounted(2) /\ ~VwCounted(3)
    /\ Len(vw.out) = 2
    /\ vw.out[1].time = VwBar(2).time
    /\ vw.out[2].time = VwBar(3).time
    /\ vw.out[2].value = vw.out[1].value

\* One iteration of calculateVWAP, ignoreVolume = false, on a bar whose volume
\* is zero or missing.
VwZeroVolumeStep ==
    /\ vw.pc = "loop" /\ vw.data.kind = "array" /\ VwIsStandard
    /\ ~vw.o.ignoreVolume
    /\ vw'.pc = "loop" /\ vw'.i = vw.i + 1
    /\ VolumeOrZero(vw.data.items[vw.i + 1]) = 0

\* The bars of the session of bar i up to bar i, and the arithmetic mean of
\* their source prices (SourcePrice3 is three times the price).
VwSessionSoFar(i) == {j \in VwSessionOf(i) : j <= i}
VwMeanPrice(S) ==
    Frac(SeqSum([j \in 1..Len(vw.data.items) |->
                    IF j \in S THEN SourcePrice3(VwBar(j), vw.o.sourceKey) ELSE 0]),
         3 * Cardinality(S))

\* C24: calculateVWAP, ignoreVolume = false: a bar with zero or missing
\* volume emits the value of the last emitted point, or its own source price
\* when there is none, and leaves cumTPV, cumVolume and lastSessionKey
\* unchanged; ignoreVolume = true: every bar emits the arithmetic mean of
\* the source prices of the bars of its session so far.
C24_ZeroVolumeCarriesAndEqualWeightIsMean ==
    /\ [][VwZeroVolumeStep =>
             /\ vw'.cumTPV = vw.cumTPV
             /\ vw'.cumVolume = vw.cumVolume
             /\ vw'.lastSessionKey = vw.lastSessionKey
             /\ vw'.out =
                    Append(vw.out,
                           Point(vw.data.items[vw.i + 1].time,
                                 IF vw.out = <<>> THEN VwOwnPrice(vw.i + 1)
                                 ELSE vw.out[Len(vw.out)].value))]_vars
    /\ []((VwStepped /\ VwIsStandard /\ vw.o.ignoreVolume) =>
             /\ Len(vw.out) = vw.i
             /\ \A k \in 1..vw.i :
                    /\ vw.out[k].time = VwBar(k).time
                    /\ vw.out[k].value = VwMeanPrice(VwSessionSoFar(k)))

\* C24 witness: with resetDaily, a bar without volume on the day after a bar
\* that was accumulated: it repeats the value of day 1 and the accumulators
\* and the remembered session are still those of day 1.
C24_Witness ==
    /\ VwStepped /\ VwIsStandard /\ ~vw.o.ignoreVolume /\ vw.o.resetDaily
    /\ vw.i >= 2 /\ vw.skipped
    /\ VolumeOrZero(VwBar(vw.i)) = 0
    /\ vw.cumVolume > 0
    /\ VwBarSession(vw.i) # VwBarSession(vw.i - 1)
    /\ vw.lastSessionKey = Num(VwBarSession(vw.i - 1))
    /\ vw.out[vw.i].value = vw.out[vw.i - 1].value
    /\ vw.out[vw.i].value # VwOwnPrice(vw.i)

\* Equal weights: the third bar is the second of its session, the bars have
\* no volume, and the value is the mean of two different prices.
VwWitnessEqualWeight ==
    /\ VwStepped /\ VwIsStandard /\ vw.o.ignoreVolume /\ vw.o.resetDaily
    /\ vw.i = 3 /\ VwSessionSoFar(3) = {2, 3}
    /\ \A k \in 1..3 : VolumeOrZero(VwBar(k)) = 0
    /\ VwOwnPrice(2) # VwOwnPrice(3)
    /\ vw.out[3].value = VwMeanPrice({2, 3})

----------------------------------------------------------------------------
(* Hilenga-Milenga: the claims *)

HmDone == hm.pc = "done"
HmLength == IF hm.data.kind = "array" THEN Len(hm.data.items) ELSE 0
HmAllEmpty == hm.rsiLine = <<>> /\ hm.emaLine = <<>> /\ hm.wmaLine = <<>>

\* C8 (as stated): whenever rsiLine is non-empty, emaLine has
\* rsiLine.length - (emaLength - 1) points and starts at the time of
\* rsiLine[emaLength - 1], and wmaLine has rsiLine.length - (wmaLength - 1)
\* points and starts at the time of rsiLine[wmaLength - 1].
C8_SmoothedLineLengths ==
    (HmDone /\ hm.rsiLine # <<>>) =>
        /\ Len(hm.emaLine) = Len(hm.rsiLine) - (hm.emaLength - 1)
        /\ Len(hm.emaLine) >= 1
        /\ hm.emaLine[1].time = hm.rsiLine[hm.emaLength].time
        /\ Len(hm.wmaLine) = Len(hm.rsiLine) - (hm.wmaLength - 1)
        /\ Len(hm.wmaLine) >= 1
        /\ hm.wmaLine[1].time = hm.rsiLine[hm.wmaLength].time

\* A line smoothed over `length` RSI values is aligned: it is empty when
\* there are fewer than `length` RSI values, and otherwise has
\* rsiLine.length - (length - 1) points, point i (0-based) at the time of
\* rsiLine[length - 1 + i].
HmAligned(line, length) ==
    IF Len(hm.rsiLine) < length THEN line = <<>>
    ELSE /\ Len(line) = Len(hm.rsiLine) - (length - 1)
         /\ \A i \in 1..Len(line) : line[i].time = hm.rsiLine[length - 1 + i].time

\* C8 (amended): whenever rsiLine has at least emaLength points, emaLine has
\* rsiLine.length - (emaLength - 1) points and its first point has the time
\* of rsiLine[emaLength - 1]; when rsiLine has fewer than emaLength points
\* emaLine is empty.  Likewise for wmaLine and wmaLength.
C8_SmoothedLinesAligned ==
    (HmDone /\ hm.rsiLine # <<>>) =>
        /\ HmAligned(hm.emaLine, hm.emaLength)
        /\ HmAligned(hm.wmaLine, hm.wmaLength)

\* C8 witness: both smoothed lines are non-empty, shorter than rsiLine and
\* start at different RSI points.
C8_Witness ==
    /\ HmDone
    /\ hm.emaLength = 2 /\ hm.wmaLength = 3
    /\ Len(hm.rsiLine) = 4
    /\ Len(hm.emaLine) = 3 /\ Len(hm.wmaLine) = 2
    /\ hm.emaLine[1].time = hm.rsiLine[2].time
    /\ hm.wmaLine[1].time = hm.rsiLine[3].time

\* C9: the result is {rsiLine: [], emaLine: [], wmaLine: []} if and only if
\* data is not an array or has fewer than max(rsiLength, wmaLength) + 1
\* elements; that case returns through the guard, before any element of
\* data is read.
C9_EmptyIffInsufficientData ==
    HmDone =>
        LET insufficient ==
                \/ hm.data.kind # "array"
                \/ Len(hm.data.items) <
                       (IF hm.rsiLength >= hm.wmaLength THEN hm.rsiLength
                        ELSE hm.wmaLength) + 1
        IN  /\ HmAllEmpty <=> insufficient
            /\ hm.guarded <=> insufficient

\* C9 witness: an array long enough for the RSI alone but not for the WMA
\* returns the three empty arrays.
C9_Witness ==
    /\ HmDone /\ HmAllEmpty /\ hm.guarded
    /\ hm.data.kind = "array"
    /\ Len(hm.data.items) >= hm.rsiLength + 1
    /\ Len(hm.data.items) < hm.wmaLength + 1

\* C29 as stated: wmaLine is non-empty if and only if data.length >=
\* rsiLength + wmaLength, and emaLine is non-empty if and only if
\* data.length >= rsiLength + emaLength.
C29_LinesNonEmptyIffLongEnough ==
    (HmDone /\ hm.data.kind = "array") =>
        /\ Len(hm.wmaLine) > 0 <=> HmLength >= hm.rsiLength + hm.wmaLength
        /\ Len(hm.emaLine) > 0 <=> HmLength >= hm.rsiLength + hm.emaLength

\* C29 amended: wmaLine is non-empty if and only if data.length >=
\* rsiLength + wmaLength; emaLine is non-empty if and only if data.length >=
\* rsiLength + emaLength and data.length >= max(rsiLength, wmaLength) + 1
\* (the guard, which does not look at emaLength, returns three empty lines
\* below that).
C29_LinesNonEmptyIffLongEnoughAndGuardPassed ==
    (HmDone /\ hm.data.kind = "array") =>
        /\ Len(hm.wmaLine) > 0 <=> HmLength >= hm.rsiLength + hm.wmaLength
        /\ Len(hm.emaLine) > 0 <=>
               /\ HmLength >= hm.rsiLength + hm.emaLength
               /\ HmLength >= Max(hm.rsiLength, hm.wmaLength) + 1

\* C29 witness: an input that passes the guard and gives a non-empty
\* rsiLine and emaLine with an empty wmaLine.
C29_Witness ==
    /\ HmDone /\ ~hm.guarded
    /\ HmLength >= Max(hm.rsiLength, hm.wmaLength) + 1
    /\ Len(hm.rsiLine) > 0 /\ Len(hm.emaLine) > 0
    /\ Len(hm.wmaLine) = 0

\* The shortest input with a wmaLine, and an input long enough for the EMA
\* that the guard turns away.
HmWitnessShortestWMA ==
    /\ HmDone /\ hm.data.kind = "array"
    /\ HmLength = hm.rsiLength + hm.wmaLength
    /\ Len(hm.wmaLine) = 1
HmWitnessGuardedEMA ==
    /\ HmDone /\ hm.guarded /\ hm.data.kind = "array"
    /\ HmLength >= hm.rsiLength + hm.emaLength
    /\ Len(hm.emaLine) = 0

\* C10: when the guard passes, rsiLine has n - rsiLength points and point j
\* (0-based) carries the time of candle rsiLength + j; 30 candles with
\* rsiLength 9 give 21 points.
C10_RsiLineLengthAndTimes ==
    (HmDone /\ ~hm.guarded) =>
        /\ Len(hm.rsiLine) = HmLength - hm.rsiLength
        /\ \A j \in 1..Len(hm.rsiLine) :
               hm.rsiLine[j].time = hm.data.items[hm.rsiLength + j].time
        /\ (HmLength = 30 /\ hm.rsiLength = 9) => Len(hm.rsiLine) = 21

\* C10 witness: the 30-candle run with rsiLength 9 returned 21 RSI points,
\* the first at data[9].
C10_Witness ==
    /\ HmDone /\ ~hm.guarded
    /\ HmLength = 30 /\ hm.rsiLength = 9
    /\ Len(hm.rsiLine) = 21
    /\ hm.rsiLine[1].time = hm.data.items[10].time

\* The closes of the input rise strictly.
HmStrictlyIncreasing ==
    /\ hm.data.kind = "array"
    /\ \A k \in 1..(Len(hm.data.items) - 1) :
           hm.data.items[k].close < hm.data.items[k + 1].close

\* C11: for strictly increasing closes (more of them than the period) the
\* average loss is 0 at every step, and every RSI value of the output is
\* 100 - 100/101 = 10000/101, never the literal 100.
C11_RisingClosesGiveBoundedRSI ==
    (HmDone /\ ~hm.guarded /\ HmStrictlyIncreasing) =>
        /\ Len(hm.averages) = Len(hm.rsiLine)
        /\ Len(hm.rsiLine) >= 1
        /\ \A j \in 1..Len(hm.rsiLine) :
               /\ hm.averages[j].loss = FInt(0)
               /\ hm.rsiLine[j].value = Frac(10000, 101)
               /\ hm.rsiLine[j].value # FInt(100)

\* C11 witness: the 30 rising candles with rsiLength 9 gave 21 RSI values,
\* the last of them 10000/101 with a positive average gain.
C11_Witness ==
    /\ HmDone /\ ~hm.guarded /\ HmStrictlyIncreasing
    /\ HmLength = 30 /\ hm.rsiLength = 9
    /\ Len(hm.rsiLine) = 21
    /\ hm.averages[21].gain = FInt(1)
    /\ hm.rsiLine[21].value = Frac(10000, 101)

\* C12: every value of rsiLine lies in [0, 100], and avgGain and avgLoss are
\* never negative at any step; each RSI value is the one computed from the
\* averages of its step.
C12_RSIInRange ==
    (HmDone /\ ~hm.guarded) =>
        /\ Len(hm.averages) = Len(hm.rsiLine)
        /\ \A j \in 1..Len(hm.rsiLine) :
               /\ FLeq(FInt(0), hm.rsiLine[j].value)
               /\ FLeq(hm.rsiLine[j].value, FInt(100))
               /\ FLeq(FInt(0), hm.averages[j].gain)
               /\ FLeq(FInt(0), hm.averages[j].loss)
               /\ hm.rsiLine[j].value =
                      RSIOf(hm.averages[j].gain, hm.averages[j].loss)

\* C12 witness: one run with an RSI value of 0 (only losses), one strictly
\* inside the range (gains and losses) and one from Wilder's recurrence.
C12_Witness ==
    /\ HmDone /\ ~hm.guarded
    /\ Len(hm.rsiLine) >= 3
    /\ hm.rsiLine[1].value = FInt(0)
    /\ hm.averages[2].gain # FInt(0) /\ hm.averages[2].loss # FInt(0)
    /\ hm.rsiLine[2].value # FInt(0)
    /\ ~FLeq(FInt(100), hm.rsiLine[2].value)

----------------------------------------------------------------------------
(* Volume indicators: the claims *)

VoIsMA == vo.pc \in {"loop", "done"} /\ vo.fn = "calculateVolumeMA"
VoIsEnhanced == vo.pc \in {"loop", "done"} /\ vo.fn = "calculateEnhancedVolume"

\* The arithmetic mean of volume over the indices lo..hi (0-based), a missing
\* volume counted as 0.
VoMean(lo, hi) ==
    Frac(SeqSum([k \in 1..(hi - lo + 1) |-> VoVolume(vo.data.items[lo + k])]),
         hi - lo + 1)

\* C13: calculateVolumeMA, period >= 1: after the bars 0..i-1 the output has
\* max(0, i - period + 1) points, none for an index below period - 1; the
\* point for index idx >= period - 1 has time data[idx].time and value the
\* mean of volume over [idx - period + 1 .. idx]; no data gives no point.
C13_VolumeMAWindow ==
    VoIsMA =>
        /\ Len(vo.result) = Max(0, vo.i - vo.period + 1)
        /\ \A m \in 1..Len(vo.result) :
               LET idx == vo.period - 1 + (m - 1)
               IN  /\ vo.result[m].time = vo.data.items[idx + 1].time
                   /\ vo.result[m].value = VoMean(idx - vo.period + 1, idx)
        /\ (vo.pc = "done" /\ vo.data.kind = "array") =>
               Len(vo.result) = Max(0, Len(vo.data.items) - vo.period + 1)
        /\ (vo.pc = "done" /\ vo.data.kind # "array") => vo.result = <<>>

\* C13 witness: calculateVolumeMA(data, 20) on 21 candles returned two
\* points, the first at index 19 with the mean of the volumes 1..20.
C13_Witness ==
    /\ VoIsMA /\ vo.pc = "done"
    /\ vo.period = 20 /\ Len(vo.data.items) = 21
    /\ Len(vo.result) = 2
    /\ vo.result[1].time = vo.data.items[20].time
    /\ vo.result[1].value = Frac(210, 20)

\* C14: calculateEnhancedVolume: a bar is flagged isHighVolume, and gets a
\* high-volume colour, if and only if it has maPeriod bars of history, the
\* trailing average is positive and volume / avgVolume >= highVolumeThreshold.
C14_HighVolumeIffRatioAtLeastThreshold ==
    VoIsEnhanced =>
        \A m \in 1..Len(vo.analysis) :
            LET hasMA == m - 1 >= vo.period - 1
                avg == IF hasMA THEN VoMean(m - vo.period, m - 1) ELSE FInt(0)
                high == /\ hasMA
                        /\ avg[1] > 0
                        /\ FLeq(FMul(vo.highVolumeThreshold, avg),
                                FInt(VoVolume(vo.data.items[m])))
            IN  /\ vo.analysis[m].isHighVolume <=> high
                /\ vo.bars[m].color \in {"highVolumeUpColor", "highVolumeDownColor"}
                       <=> high

----------------------------------------------------------------------------
(* Anchored VWAP: the claims *)

AvRan == av.pc \in {"loop", "done"} /\ ~AvEmptyInput
AvLength == Len(av.data.items)

\* The candles that qualify as anchor (1-based positions).
AvQualifying ==
    CASE av.anchorType = "time" ->
             {k \in 1..AvLength :
                 ~av.anchorTime.null /\ av.data.items[k].time >= av.anchorTime.n}
      [] av.anchorType = "high" ->
             {k \in 1..AvLength :
                 \A j \in 1..AvLength : av.data.items[j].high <= av.data.items[k].high}
      [] av.anchorType = "low" ->
             {k \in 1..AvLength :
                 \A j \in 1..AvLength : av.data.items[k].low <= av.data.items[j].low}
      [] OTHER -> {}

\* C15: calculateAnchoredVWAP, anchorType 'time', 'high' or 'low': the
\* anchor index is the first qualifying candle (time >= anchorTime, highest
\* high, lowest low), 0 when none qualifies; the output has one point per
\* candle, with the candle's time, and the null values are exactly those at
\* indices below the anchor index.
C15_NullExactlyBeforeAnchor ==
    (AvRan /\ av.anchorType \in {"time", "high", "low"}) =>
        /\ av.anchorIndex =
               IF AvQualifying = {} THEN 0 ELSE SetMin(AvQualifying) - 1
        /\ Len(av.out) = av.i
        /\ av.pc = "done" => Len(av.out) = AvLength
        /\ \A k \in 1..Len(av.out) :
               /\ av.out[k].time = av.data.items[k].time
               /\ (av.out[k].value = NullValue) <=> (k - 1 < av.anchorIndex)
        /\ AvQualifying = {} => \A k \in 1..Len(av.out) : av.out[k].value # NullValue

\* C15 witness: three bars, the highest high is shared by the second and
\* third, the anchor is the second: one null point, two values.
C15_Witness ==
    /\ av.pc = "done" /\ av.anchorType = "high"
    /\ AvLength = 3
    /\ AvQualifying = {2, 3}
    /\ av.anchorIndex = 1
    /\ av.out[1].value = NullValue
    /\ av.out[2].value # NullValue /\ av.out[3].value # NullValue

----------------------------------------------------------------------------
(* Session pattern detectors: the claims *)

DtRan == dt.pc \in {"days", "done"} /\ ~DtEmptyInput
DtIsFirstCandle == DtRan /\ dt.fn = "calculateFirstCandle"
DtIsRangeBreakout == DtRan /\ dt.fn = "calculateRangeBreakout"
DtBar(j) == dt.data.items[j]

\* The days handled so far.
DtHandledDays == {dt.dayMap[b].dateStr : b \in 1..dt.day}

\* The market-hours bars (09:15 to 15:30) of a day, as positions of the input.
DtMarketBars(dy) ==
    {j \in 1..Len(dt.data.items) :
        /\ DtBar(j).time \div 86400 = dy
        /\ (DtBar(j).time \div 60) % 1440 >= 555
        /\ (DtBar(j).time \div 60) % 1440 <= 930}

DtMinuteOf(j) == (DtBar(j).time \div 60) % 1440

\* The bar of a non-empty set of bars that is first resp. last in time.
DtEarliest(B) == CHOOSE j \in B : \A k \in B : DtBar(j).time <= DtBar(k).time
DtLatest(B) == CHOOSE j \in B : \A k \in B : DtBar(k).time <= DtBar(j).time

DtRedBars(dy) == {j \in DtMarketBars(dy) : DtBar(j).close < DtBar(j).open}

DtLevelsOf(dy) == {k \in 1..Len(dt.allLevels) : dt.allLevels[k].date = dy}
DtFirstCandleMarkersOf(dy) ==
    {k \in 1..Len(dt.allMarkers) : dt.allMarkers[k].time \div 86400 = dy}

\* The level and the marker of a day of calculateFirstCandle are those of
\* its first red market-hours bar.
DtFirstRedLevel(dy) ==
    LET red == DtBar(DtEarliest(DtRedBars(dy)))
        last == DtBar(DtLatest(DtMarketBars(dy)))
    IN  /\ Cardinality(DtLevelsOf(dy)) = 1
        /\ Cardinality(DtFirstCandleMarkersOf(dy)) = 1
        /\ \A k \in DtLevelsOf(dy) :
               dt.allLevels[k] = [high |-> red.high, low |-> red.low, date |-> dy,
                                  startTime |-> red.time, endTime |-> last.time]
        /\ \A k \in DtFirstCandleMarkersOf(dy) : dt.allMarkers[k].time = red.time

DtNoFirstRedLevel(dy) == DtLevelsOf(dy) = {} /\ DtFirstCandleMarkersOf(dy) = {}

\* C17 (as stated): calculateFirstCandle: a day with a red market-hours bar
\* emits exactly one level and one marker, from the first such bar to the
\* day's last market-hours bar; a day without one emits none.
C17_LevelIffRedCandle ==
    DtIsFirstCandle =>
        \A dy \in DtHandledDays :
            IF DtRedBars(dy) # {} THEN DtFirstRedLevel(dy) ELSE DtNoFirstRedLevel(dy)

\* C17 (amended): a day emits exactly one level and one marker, from its
\* first red market-hours bar to its last market-hours bar, if and only if
\* it has a red market-hours bar and the first of them is not the day's last
\* market-hours bar; every other day emits no level and no marker.
C17_LevelIffRedCandleBeforeLastBar ==
    DtIsFirstCandle =>
        /\ \A dy \in DtHandledDays :
               IF /\ DtRedBars(dy) # {}
                  /\ DtBar(DtEarliest(DtRedBars(dy))).time #
                         DtBar(DtLatest(DtMarketBars(dy))).time
               THEN DtFirstRedLevel(dy) ELSE DtNoFirstRedLevel(dy)
        /\ Len(dt.allLevels) = Len(dt.days)
        /\ Len(dt.allMarkers) = Len(dt.days)
        /\ \A k \in 1..Len(dt.allLevels) : dt.allLevels[k].date \in DtHandledDays

\* C17 witness: a day given in descending time order whose first
\* market-hours bar is green, the second red and the last red too: the level
\* is the second bar's, up to the last bar.
C17_Witness ==
    /\ DtIsFirstCandle /\ dt.pc = "done"
    /\ Len(dt.data.items) = 3
    /\ DtBar(1).time > DtBar(2).time /\ DtBar(2).time > DtBar(3).time
    /\ DtMarketBars(DtBaseDay) = {1, 2, 3}
    /\ DtRedBars(DtBaseDay) = {1, 2}
    /\ Len(dt.allLevels) = 1 /\ Len(dt.allMarkers) = 1
    /\ dt.allLevels[1].startTime = DtBar(2).time
    /\ dt.allLevels[1].endTime = DtBar(1).time
    /\ dt.allLevels[1].high = DtBar(2).high

\* The bars of a day in the range window [09:30, 10:00) and the bars at or
\* after its end, among the market-hours bars.
DtWindowBars(dy) == {j \in DtMarketBars(dy) : DtMinuteOf(j) >= 570 /\ DtMinuteOf(j) < 600}
DtPostBars(dy) == {j \in DtMarketBars(dy) : DtMinuteOf(j) >= 600}

\* The day is not skipped by calculateRangeBreakout.
DtContributes(dy) ==
    /\ DtWindowBars(dy) # {}
    /\ DtPostBars(dy) # {}
    /\ DtBar(DtEarliest(DtPostBars(dy))).time # DtBar(DtLatest(DtMarketBars(dy))).time

DtRangeHigh(dy) == SetMax({DtBar(j).high : j \in DtWindowBars(dy)})
DtRangeLow(dy) == SetMin({DtBar(j).low : j \in DtWindowBars(dy)})

DtMarkersOf(dy, text) ==
    {k \in 1..Len(dt.markers) :
        dt.markers[k].time \div 86400 = dy /\ dt.markers[k].text = text}

\* The markers of one kind of a day: none when no bar of `bars` qualifies,
\* else one, on the earliest of them.
DtOneMarkerOnEarliest(dy, text, bars) ==
    IF bars = {} THEN DtMarkersOf(dy, text) = {}
    ELSE /\ Cardinality(DtMarkersOf(dy, text)) = 1
         /\ \A k \in DtMarkersOf(dy, text) :
                dt.markers[k].time = DtBar(DtEarliest(bars)).time

\* C18: calculateRangeBreakout with showSignals: a day has at most one
\* breakout and at most one breakdown marker; on a day that is not skipped
\* the breakout marker is on the earliest post-window bar with close >
\* rangeHigh and the breakdown marker on the earliest with close < rangeLow,
\* each there exactly when such a bar exists, whatever the other did; no
\* marker is on a bar of the range window; without showSignals there is no
\* marker.
C18_OneBreakoutOneBreakdownPerDay ==
    DtIsRangeBreakout =>
        /\ \A dy \in DtHandledDays :
               /\ Cardinality(DtMarkersOf(dy, "RB: Breakout")) <= 1
               /\ Cardinality(DtMarkersOf(dy, "RB: Breakdown")) <= 1
               /\ (dt.o.showSignals /\ DtContributes(dy)) =>
                      /\ DtOneMarkerOnEarliest(dy, "RB: Breakout",
                             {j \in DtPostBars(dy) : DtBar(j).close > DtRangeHigh(dy)})
                      /\ DtOneMarkerOnEarliest(dy, "RB: Breakdown",
                             {j \in DtPostBars(dy) : DtBar(j).close < DtRangeLow(dy)})
               /\ \A j \in DtWindowBars(dy) : \A k \in 1..Len(dt.markers) :
                      dt.markers[k].time # DtBar(j).time
        /\ \A k \in 1..Len(dt.markers) :
               /\ dt.markers[k].text \in {"RB: Breakout", "RB: Breakdown"}
               /\ dt.markers[k].time \div 86400 \in DtHandledDays
        /\ ~dt.o.showSignals => dt.markers = <<>>

\* C18 witness: a day whose first post-window bar closes below the range and
\* whose second closes above it: the breakdown marker comes first, the
\* breakout marker after it.
C18_Witness ==
    /\ DtIsRangeBreakout /\ dt.pc = "done" /\ dt.o.showSignals
    /\ Len(dt.data.items) = 3
    /\ Cardinality(DtWindowBars(DtBaseDay)) = 1
    /\ Cardinality(DtPostBars(DtBaseDay)) = 2
    /\ Len(dt.markers) = 2
    /\ dt.markers[1].text = "RB: Breakdown"
    /\ dt.markers[2].text = "RB: Breakout"
    /\ dt.markers[1].time < dt.markers[2].time

DtPointsOf(line, dy) == {k \in 1..Len(line) : line[k].time \div 86400 = dy}

\* C19: calculateRangeBreakout: a day contributes (one level, from the first
\* post-window bar to the last market-hours bar, and the line points of that
\* level) if and only if it has a market-hours bar in [rangeStart, rangeEnd),
\* a market-hours bar at or after rangeEnd, and the first post-window bar is
\* not at the time of the last market-hours bar; a skipped day has no level,
\* no point of highLines or lowLines and no marker.
C19_DayContributesIffWindowAndPostSegment ==
    DtIsRangeBreakout =>
        \A dy \in DtHandledDays :
            IF DtContributes(dy)
            THEN /\ Cardinality(DtLevelsOf(dy)) = 1
                 /\ \A k \in DtLevelsOf(dy) :
                        dt.allLevels[k] =
                            [high |-> DtRangeHigh(dy), low |-> DtRangeLow(dy),
                             date |-> dy,
                             startTime |-> DtBar(DtEarliest(DtPostBars(dy))).time,
                             endTime |-> DtBar(DtLatest(DtMarketBars(dy))).time]
                 /\ Cardinality({k \in DtPointsOf(dt.highLines, dy) :
                                      ~dt.highLines[k].value.null}) = 2
                 /\ Cardinality({k \in DtPointsOf(dt.lowLines, dy) :
                                      ~dt.lowLines[k].value.null}) = 2
                 /\ dt.pc = "done" =>
                        /\ Cardinality(DtPointsOf(dt.filteredHighLines, dy)) = 2
                        /\ Cardinality(DtPointsOf(dt.filteredLowLines, dy)) = 2
            ELSE /\ DtLevelsOf(dy) = {}
                 /\ DtPointsOf(dt.highLines, dy) = {}
                 /\ DtPointsOf(dt.lowLines, dy) = {}
                 /\ DtPointsOf(dt.filteredHighLines, dy) = {}
                 /\ DtPointsOf(dt.filteredLowLines, dy) = {}
                 /\ DtPointsOf(dt.markers, dy) = {}

\* C19 witness: two days that both contribute: two levels, and lines of two
\* points per day once the null points between the days are filtered out.
C19_Witness ==
    /\ DtIsRangeBreakout /\ dt.pc = "done"
    /\ Len(dt.dayMap) = 2
    /\ DtContributes(DtBaseDay) /\ DtContributes(DtBaseDay + 1)
    /\ Len(dt.allLevels) = 2
    /\ Len(dt.highLines) = 6 /\ Len(dt.filteredHighLines) = 4
    /\ Len(dt.lowLines) = 6 /\ Len(dt.filteredLowLines) = 4

----------------------------------------------------------------------------
(* Day grouping: the claims *)

\* The places (bucket, position) of the Map where candle j of the input is.
GcPlaces(j) ==
    {<<b, k>> \in (1..Len(gc.dayMap)) \X (1..gc.i) :
        k <= Len(gc.dayMap[b].candles) /\ gc.dayMap[b].candles[k] = gc.data[j]}

\* The position in the input of the first candle of the day of bucket b.
GcFirstSeen(b) ==
    SetMin({j \in 1..gc.i : DateStr(gc.data[j].time) = gc.dayMap[b].dateStr})

\* C20: the buckets partition the candles read so far: each candle is in
\* exactly one bucket, the one of its date, and nothing else is in a bucket;
\* the keys are distinct and in the order in which their days first appear
\* in the input; inside a bucket the candles are in input order.
C20_BucketsPartitionInInputOrder ==
    /\ \A j \in 1..gc.i :
           /\ Cardinality(GcPlaces(j)) = 1
           /\ \A pl \in GcPlaces(j) :
                  gc.dayMap[pl[1]].dateStr = DateStr(gc.data[j].time)
    /\ \A b \in 1..Len(gc.dayMap) :
           /\ gc.dayMap[b].candles # <<>>
           /\ \A k \in 1..Len(gc.dayMap[b].candles) :
                  \E j \in 1..gc.i : gc.dayMap[b].candles[k] = gc.data[j]
           /\ \A k, l \in 1..Len(gc.dayMap[b].candles) :
                  k < l => gc.dayMap[b].candles[k].id < gc.dayMap[b].candles[l].id
    /\ \A b, c \in 1..Len(gc.dayMap) :
           b < c => /\ gc.dayMap[b].dateStr # gc.dayMap[c].dateStr
                    /\ GcFirstSeen(b) < GcFirstSeen(c)

\* C20 witness: four candles, the later day first and the days interleaved:
\* two buckets of two candles, the later day's bucket first.
C20_Witness ==
    /\ gc.pc = "done" /\ gc.i = 4
    /\ DateStr(gc.data[1].time) > DateStr(gc.data[2].time)
    /\ DateStr(gc.data[3].time) = DateStr(gc.data[1].time)
    /\ DateStr(gc.data[4].time) = DateStr(gc.data[2].time)
    /\ gc.data[3].time < gc.data[1].time
    /\ Len(gc.dayMap) = 2
    /\ gc.dayMap[1].candles = <<gc.data[1], gc.data[3]>>
    /\ gc.dayMap[2].candles = <<gc.data[2], gc.data[4]>>

----------------------------------------------------------------------------
(* Renko: the claims *)

RkNonEmpty == rk.data.kind = "array" /\ Len(rk.data.items) > 0
RkStepped == rk.pc \in {"loop", "done"} /\ rk.i > 0

\* C1 (as stated): in an uptrend, a candle closing exactly 1.5 x brickSize
\* below brickPrice emits no brick and keeps the direction 'up', and a candle
\* closing exactly 2 x brickSize below brickPrice emits exactly one down brick
\* and flips the direction to 'down'.
C1_ReversalEmitsOneBrick ==
    (RkStepped /\ rk.prevDirection = "up") =>
        /\ (2 * rk.priceDiff = -3 * rk.boxSize) =>
               (rk.emitted = 0 /\ rk.lastDirection = "up")
        /\ (rk.priceDiff = -2 * rk.boxSize) =>
               (rk.emitted = 1 /\ rk.lastDirection = "down")

\* C2 (as stated): for every non-empty input and every brickSize argument,
\* element k (0-based) of the result has time data[0].time + k, so the times
\* are strictly increasing.
C2_TimesForAnyBrickSize ==
    (rk.pc = "done" /\ RkNonEmpty) =>
        \A k \in 1..Len(rk.result) :
            rk.result[k].time = rk.data.items[1].time + (k - 1)

\* C2 (amended): whenever the effective box size is positive (the bricks are
\* built by createBrick), brick k (0-based) has time data[0].time + k at every
\* point of the run, so brick times are strictly increasing and no two
\* consecutive bricks share a time.
C2_BrickTimesStrictlyIncreasing ==
    (rk.pc \in {"loop", "done"}) =>
        /\ \A k \in 1..Len(rk.renkoBricks) :
               rk.renkoBricks[k].time = rk.data.items[1].time + (k - 1)
        /\ \A k \in 1..(Len(rk.renkoBricks) - 1) :
               rk.renkoBricks[k].time < rk.renkoBricks[k + 1].time
        /\ (rk.pc = "done" /\ ~rk.fallback) => rk.result = rk.renkoBricks

\* C2 witness: an auto-sized run returned at least three bricks, two or more
\* of them produced by one candle.
C2_Witness ==
    /\ rk.pc = "done" /\ ~rk.fallback /\ rk.brickSize.null
    /\ Len(rk.result) >= 3
    /\ rk.emitted >= 2

\* C3 (as stated): for every non-empty input the result is never empty, is the
\* list of bricks built by createBrick, and, when the pass over the candles
\* emitted no brick, is exactly one brick from the first close to the last.
C3_AlwaysBricks ==
    (rk.pc = "done" /\ RkNonEmpty) =>
        /\ Len(rk.result) >= 1
        /\ rk.result = rk.renkoBricks
        /\ ~rk.fallback

\* C3 (amended): for non-empty input whose effective box size is positive,
\* the result is the non-empty list of bricks built by createBrick; if the
\* pass over the candles emitted no brick it is exactly one brick with
\* open = first close, close = last close, high = the larger and low = the
\* smaller of the two (direction 'up' iff last close >= first close), stamped
\* with the first candle's time.
C3_SyntheticBrick ==
    (rk.pc = "done" /\ RkNonEmpty /\ ~rk.fallback) =>
        LET first == rk.data.items[1].close * rk.scale
            last == rk.data.items[Len(rk.data.items)].close * rk.scale
        IN  /\ Len(rk.result) >= 1
            /\ rk.result = rk.renkoBricks
            /\ rk.passBricks = 0 =>
                   rk.result = <<[time |-> rk.data.items[1].time,
                                  open |-> first,
                                  high |-> Max(first, last),
                                  low |-> Min(first, last),
                                  close |-> last]>>
            /\ rk.passBricks > 0 => Len(rk.result) = rk.passBricks

\* C3 witness: a pass that emitted nothing although the close moved down.
C3_Witness ==
    /\ rk.pc = "done" /\ RkNonEmpty /\ ~rk.fallback
    /\ rk.passBricks = 0
    /\ Len(rk.result) = 1
    /\ rk.result[1].close < rk.result[1].open

\* One iteration of the loop of calculateRenko while the trend is dir; the
\* candle's priceDiff, and the bricks the iteration appends.
RkTrendStep(dir) ==
    /\ rk.pc = "loop" /\ rk'.pc = "loop" /\ rk'.i = rk.i + 1
    /\ rk.lastDirection = dir
RkPriceDiff == rk.data.items[rk.i + 1].close * rk.scale - rk.brickPrice
RkNewBricks ==
    SubSeq(rk'.renkoBricks, Len(rk.renkoBricks) + 1, Len(rk'.renkoBricks))
RkKeepsOldBricks ==
    /\ Len(rk'.renkoBricks) >= Len(rk.renkoBricks)
    /\ SubSeq(rk'.renkoBricks, 1, Len(rk.renkoBricks)) = rk.renkoBricks
RkNoBrick ==
    /\ rk'.renkoBricks = rk.renkoBricks
    /\ rk'.brickPrice = rk.brickPrice
    /\ rk'.lastDirection = rk.lastDirection

\* C25: while trending up, a candle with priceDiff >= brickSize appends
\* exactly floor(priceDiff / brickSize) up bricks, and a candle with
\* -2 x brickSize < priceDiff < brickSize appends no brick and leaves
\* brickPrice and lastDirection unchanged; while trending down, a candle with
\* priceDiff <= -brickSize appends exactly floor(|priceDiff| / brickSize)
\* down bricks, and a candle with -brickSize < priceDiff < 2 x brickSize
\* appends no brick and leaves brickPrice and lastDirection unchanged.
C25_TrendStep ==
    [][/\ (RkTrendStep("up") /\ RkPriceDiff >= rk.boxSize) =>
             /\ RkKeepsOldBricks
             /\ Len(RkNewBricks) = RkPriceDiff \div rk.boxSize
             /\ \A k \in 1..Len(RkNewBricks) :
                    RkNewBricks[k].close = RkNewBricks[k].open + rk.boxSize
             /\ rk'.brickPrice = rk.brickPrice + Len(RkNewBricks) * rk.boxSize
             /\ rk'.lastDirection = "up"
       /\ (RkTrendStep("up") /\ -2 * rk.boxSize < RkPriceDiff
               /\ RkPriceDiff < rk.boxSize) => RkNoBrick
       /\ (RkTrendStep("down") /\ RkPriceDiff <= -rk.boxSize) =>
             /\ RkKeepsOldBricks
             /\ Len(RkNewBricks) = Abs(RkPriceDiff) \div rk.boxSize
             /\ \A k \in 1..Len(RkNewBricks) :
                    RkNewBricks[k].close = RkNewBricks[k].open - rk.boxSize
             /\ rk'.brickPrice = rk.brickPrice - Len(RkNewBricks) * rk.boxSize
             /\ rk'.lastDirection = "down"
       /\ (RkTrendStep("down") /\ -rk.boxSize < RkPriceDiff
               /\ RkPriceDiff < 2 * rk.boxSize) => RkNoBrick]_vars

\* C25 witness: an uptrend continued by a candle two box sizes above
\* brickPrice, which appended two up bricks.
C25_Witness ==
    /\ RkStepped /\ rk.prevDirection = "up" /\ rk.lastDirection = "up"
    /\ rk.priceDiff >= 2 * rk.boxSize
    /\ rk.emitted = 2

\* The other cases of C25 occur: a down continuation by two bricks, and a
\* candle inside the dead zone of each trend on the side of the reversal.
RkWitnessDownContinuation ==
    /\ RkStepped /\ rk.prevDirection = "down" /\ rk.lastDirection = "down"
    /\ rk.priceDiff <= -2 * rk.boxSize /\ rk.emitted = 2
RkWitnessUpDeadZone ==
    /\ RkStepped /\ rk.prevDirection = "up" /\ rk.emitted = 0
    /\ rk.priceDiff <= -rk.boxSize
RkWitnessDownDeadZone ==
    /\ RkStepped /\ rk.prevDirection = "down" /\ rk.emitted = 0
    /\ rk.priceDiff >= rk.boxSize

\* The loop of calculateRenko runs or has ended with bricks of its own (the
\* brick added after a loop without bricks is not one of them).
RkRegular ==
    /\ rk.pc \in {"loop", "done"} /\ RkNonEmpty /\ ~rk.fallback
    /\ rk.pc = "done" => rk.passBricks > 0

\* Line 86: the initial aligned price, in units of 1/scale tick.
RkAlignedPrice ==
    ((rk.data.items[1].close * rk.scale) \div rk.boxSize) * rk.boxSize

\* C27: with a positive brick size and bricks from the loop: every brick has
\* |close - open| = brickSize, high = max(open, close) and
\* low = min(open, close); every brick opens at the close of the brick
\* before it, across reversals too (the first opens at the initial aligned
\* price); and brickPrice is the initial aligned price plus an integer
\* multiple of brickSize (the close of the last brick, when there is one).
C27_BrickChain ==
    RkRegular =>
        /\ rk.boxSize > 0
        /\ \A k \in 1..Len(rk.renkoBricks) :
               LET brick == rk.renkoBricks[k]
               IN  /\ Abs(brick.close - brick.open) = rk.boxSize
                   /\ brick.high = Max(brick.open, brick.close)
                   /\ brick.low = Min(brick.open, brick.close)
                   /\ brick.open = IF k = 1 THEN RkAlignedPrice
                                   ELSE rk.renkoBricks[k - 1].close
        /\ (rk.brickPrice - RkAlignedPrice) % rk.boxSize = 0
        /\ Len(rk.renkoBricks) > 0 =>
               rk.brickPrice = rk.renkoBricks[Len(rk.renkoBricks)].close

\* C27 witness: bricks up and then down in one result, the first down brick
\* opening at the close of the last up brick.
C27_Witness ==
    /\ RkRegular /\ rk.pc = "done"
    /\ \E k \in 1..(Len(rk.result) - 1) :
           /\ rk.result[k].close > rk.result[k].open
           /\ rk.result[k + 1].close < rk.result[k + 1].open
           /\ rk.result[k + 1].open = rk.result[k].close

\* The loop has processed a candle; the distance of the close of the last
\* candle processed from brickPrice.
RkProcessed == rk.pc \in {"loop", "done"} /\ RkNonEmpty /\ ~rk.fallback /\ rk.i > 0
RkResidual == rk.data.items[rk.i].close * rk.scale - rk.brickPrice

\* C28: after each candle, close - brickPrice is strictly between -brickSize
\* and brickSize while there is no direction, between -2 x brickSize and
\* brickSize while the direction is up, and between -brickSize and
\* 2 x brickSize while it is down; and a direction, once set, is never null
\* again.
C28_ResidualBound ==
    /\ [](RkProcessed =>
             /\ rk.lastDirection = Null =>
                    (-rk.boxSize < RkResidual /\ RkResidual < rk.boxSize)
             /\ rk.lastDirection = "up" =>
                    (-2 * rk.boxSize < RkResidual /\ RkResidual < rk.boxSize)
             /\ rk.lastDirection = "down" =>
                    (-rk.boxSize < RkResidual /\ RkResidual < 2 * rk.boxSize)
             /\ rk.lastDirection \in {Null, "up", "down"})
    /\ [][(rk.pc = "loop" /\ rk.lastDirection # Null) =>
              rk'.lastDirection # Null]_vars

\* C28 witness: in an uptrend, the last candle closed a full box size or
\* more below brickPrice without reversing it.
C28_Witness ==
    /\ RkProcessed /\ rk.lastDirection = "up"
    /\ RkResidual <= -rk.boxSize
    /\ Len(rk.renkoBricks) > 0

\* The same on the other side, and a candle that left no direction.
RkWitnessDownResidual ==
    RkProcessed /\ rk.lastDirection = "down" /\ RkResidual >= rk.boxSize
RkWitnessUndirected ==
    RkProcessed /\ rk.lastDirection = Null /\ rk.i >= 2 /\ RkResidual > 0

----------------------------------------------------------------------------
(* useIndicatorWorker: the claims *)

WkRunning == wk.pc \in {"mounted", "unmounted"}
WkPending(id) == WkRunning /\ wk.requests[id].state = "pending"
WkSettled(id) == WkRunning /\ wk.requests[id].state \in {"resolved", "rejected"}

\* resolve or reject is called at most once on a promise, and exactly once
\* on a settled one.
WkSettledAtMostOnce ==
    WkRunning =>
        \A id \in WkIds :
            /\ wk.requests[id].calls <= 1
            /\ WkSettled(id) <=> wk.requests[id].calls = 1

\* A settled request is not in the map of pending requests.
WkSettledNotPending ==
    \A id \in WkIds : WkSettled(id) => id \notin wk.pendingRequests

\* The promise of a request that was posted to the worker settles through
\* a response, a worker error or its timeout.
WkSettledByNamedWay ==
    \A id \in WkIds :
        (WkSettled(id) /\ wk.requests[id].timer # "none") =>
            wk.requests[id].by \in {"response", "error", "timeout"}

\* The promise of a request made without a worker is resolved at once and
\* is never in the map.
WkUnavailableResolves ==
    \A id \in WkIds :
        (WkRunning /\ wk.requests[id].state # "unsent"
                /\ wk.requests[id].timer = "none") =>
            /\ wk.requests[id].state = "resolved"
            /\ wk.requests[id].by = "unavailable"
            /\ id \notin wk.pendingRequests

\* The timer of a request posted to the worker runs for options.timeout, or
\* 30000 ms when that is absent.
WkDefaultTimeout ==
    WkRunning =>
        \A id \in WkIds :
            wk.requests[id].timer # "none" =>
                wk.requests[id].timeout =
                    (IF wk.requests[id].option = 0 THEN 30000
                     ELSE wk.requests[id].option)

\* Every pending promise settles.
WkEventuallySettles ==
    \A id \in WkIds : WkPending(id) ~> WkSettled(id)

\* Every pending promise settles unless the hook is unmounted first.
WkSettlesUnlessUnmounted ==
    \A id \in WkIds : WkPending(id) ~> (WkSettled(id) \/ wk.pc = "unmounted")

\* A promise that is pending after the unmount stays pending.
WkOrphanedStaysPending ==
    [][\A id \in WkIds :
          (wk.pc = "unmounted" /\ WkPending(id)) => WkPending(id)']_vars

\* C30: every promise returned by sendRequest eventually settles, exactly
\* once, through a worker response with its id, a worker error or the
\* request timeout (30000 ms by default), whatever the interleaving of
\* responses, onerror, terminate() and the unmount cleanup; a settled
\* request's id is not in the pending map.
C30_EveryRequestSettlesOnce ==
    /\ WkEventuallySettles
    /\ [](/\ WkSettledAtMostOnce /\ WkSettledNotPending
          /\ WkSettledByNamedWay /\ WkDefaultTimeout)

\* The unmount cleanup has run with a request pending, its timer has fired
\* since, and the promise is still pending.
WkWitnessOrphaned ==
    /\ wk.pc = "unmounted"
    /\ \E id \in WkIds :
          WkPending(id) /\ wk.requests[id].timer = "fired"

\* Requests of one hook settled in each of the ways: by a response, by a
\* worker error, by the timeout after terminate().
WkWitnessResponse ==
    \E id \in WkIds :
        WkSettled(id) /\ wk.requests[id].by = "response"
            /\ wk.requests[id].timer = "cleared"
WkWitnessError ==
    \E id \in WkIds : WkSettled(id) /\ wk.requests[id].by = "error"
WkWitnessTimeoutAfterTerminate ==
    /\ wk.pc = "mounted" /\ ~wk.workerRef
    /\ \E id \in WkIds : WkSettled(id) /\ wk.requests[id].by = "timeout"
WkWitnessUnavailable ==
    \E id \in WkIds : WkSettled(id) /\ wk.requests[id].by = "unavailable"

----------------------------------------------------------------------------
(* calculateDefaultBrickSize: the claims *)

FAbs(a) == <<Abs(a[1]), a[2]>>
FLt(a, b) == a[1] * b[2] < b[1] * a[2]

\* calculateDefaultBrickSize has returned for an input with a positive ATR.
BsSized ==
    /\ rk.pc = "sized" /\ rk.data.kind = "array" /\ Len(rk.data.items) > 0
    /\ rk.atr[1] > 0

\* The power of ten of the ATR: the p with p <= atr < 10 p, among the powers
\* of ten the inputs can need.
BsPowers == {<<1, 1000>>, <<1, 100>>, <<1, 10>>, <<1, 1>>, <<10, 1>>, <<100, 1>>}
BsMagnitude ==
    CHOOSE p \in BsPowers : FLeq(p, rk.atr) /\ FLt(rk.atr, FMul(FInt(10), p))
BsNormalized == FDiv(rk.atr, BsMagnitude)

\* The four candidate sizes, and the distance of a size to the ATR.
BsMultiples == {FMul(m, BsMagnitude) : m \in {<<1, 1>>, <<5, 2>>, <<5, 1>>, <<10, 1>>}}
BsDistance(size) == FAbs(FSub(size, rk.atr))
BsNearest(size) ==
    /\ size \in BsMultiples
    /\ \A m \in BsMultiples : FLeq(BsDistance(size), BsDistance(m))

\* The normalized ATR is past a threshold of the code but before the
\* midpoint of the two multiples around it.
BsBetweenThresholdAndMidpoint ==
    \/ FLeq(<<3, 2>>, BsNormalized) /\ FLt(BsNormalized, <<7, 4>>)
    \/ FLeq(<<7, 2>>, BsNormalized) /\ FLt(BsNormalized, <<15, 4>>)

\* C26 (as stated): the returned size is the one of 1, 2.5, 5, 10 times the
\* ATR's power of ten that is nearest to the ATR.
C26_NearestNiceMultiple ==
    BsSized => BsNearest(rk.result)

\* C26 (amended): for a positive ATR with normalized value n = ATR / 10^k in
\* [1, 10), the returned size is 10^k times 1 if n < 1.5, 2.5 if
\* 1.5 <= n < 3.5, 5 if 3.5 <= n < 7.5 and 10 otherwise: the nearest of the
\* four multiples except for n in [1.5, 1.75) and [3.5, 3.75), where it is the
\* next larger multiple (2.5 resp. 5) although the smaller one is nearer.
\* For an ATR of 0 the returned size is 0, and for no data it is 1.
C26_NiceMultipleByThresholds ==
    /\ BsSized =>
           /\ rk.result \in BsMultiples
           /\ ~BsBetweenThresholdAndMidpoint => BsNearest(rk.result)
           /\ (BsBetweenThresholdAndMidpoint /\ FLt(BsNormalized, <<7, 4>>)) =>
                  (rk.result = FMul(<<5, 2>>, BsMagnitude)
                     /\ FLt(BsDistance(BsMagnitude), BsDistance(rk.result)))
           /\ (BsBetweenThresholdAndMidpoint /\ FLeq(<<7, 2>>, BsNormalized)) =>
                  (rk.result = FMul(<<5, 1>>, BsMagnitude)
                     /\ FLt(BsDistance(FMul(<<5, 2>>, BsMagnitude)),
                            BsDistance(rk.result)))
    /\ (rk.pc = "sized" /\ rk.data.kind = "array" /\ Len(rk.data.items) > 0
           /\ rk.atr[1] = 0) => rk.result = <<0, 1>>
    /\ (rk.pc = "sized" /\ (rk.data.kind # "array" \/ Len(rk.data.items) = 0)) =>
           rk.result = <<1, 1>>

\* C26 witness: 15 candles with an ATR of 36 ticks (normalized 3.6): the
\* size is 50 although 25 is nearer.
C26_Witness ==
    /\ BsSized /\ Len(rk.data.items) = ATRPeriod + 1
    /\ rk.atr = <<36, 1>>
    /\ rk.result = <<50, 1>>

\* The nearest multiple is returned on both sides of the gaps, e.g. for a
\* normalized ATR of 3.4 (2.5) and of 3.8 (5).
BsWitnessNearest ==
    /\ BsSized /\ BsNormalized = <<19, 5>> /\ BsNearest(rk.result)

====
